---- MODULE Spec2Model ----
(***************************************************************************)
(* Validly: the json_difference comparison engine and the json_validate    *)
(* contract validator of src/Validly/validator.py, as a state machine over *)
(* a process that makes a bounded number of invocations.                   *)
(*                                                                         *)
(* Python strings (paths, option keys, string values) are sequences of     *)
(* tokens: a key name is one token, and each of the characters the code    *)
(* inspects ('.', '[', ']', '=') is a token of its own, so that split,     *)
(* strip, endswith and the formatting of paths are computed as the code    *)
(* computes them.                                                          *)
(***************************************************************************)
EXTENDS Integers, Sequences, FiniteSets, TLC

(***************************************************************************)
(* Bounds of the model.                                                    *)
(***************************************************************************)
MaxCalls == 3
\* the number of rules registered for one leaf
MaxRules == 2

MaxLen == 2

\* the nesting of the deepest tree that is walked step by step
MaxDepth == 5

\* the frames the interpreter allows on its stack (sys.getrecursionlimit(),
\* 1000 in CPython, scaled to the trees of the model)
RecursionLimit == 9

(***************************************************************************)
(* JSON values, as Python holds them after json.loads.                     *)
(***************************************************************************)
None == [k |-> "null", v |-> 0]
JBool(b) == [k |-> "bool", v |-> IF b THEN 1 ELSE 0]
JInt(n) == [k |-> "int", v |-> n]
\* a float with an integral value: JFloat(1) is 1.0
JFloat(n) == [k |-> "float", v |-> n]
\* a string, one token
JStr(s) == [k |-> "str", v |-> <<s>>]
\* a string, given by its tokens
JText(toks) == [k |-> "str", v |-> toks]
JList(s) == [k |-> "list", v |-> s]
JDict(f) == [k |-> "dict", v |-> f]
EmptyDict == JDict([kk \in {} |-> None])

IsDict(x) == x.k = "dict"
IsList(x) == x.k = "list"
IsContainer(x) == x.k \in {"dict", "list"}
IsStr(x) == x.k = "str"
\* bool is a subclass of int in Python: the three kinds compare and hash by value
IsNumeric(x) == x.k \in {"bool", "int", "float"}

\* Python's == between a value and a scalar (the only use the walker makes of it)
PyEq(a, b) ==
    IF IsNumeric(a) /\ IsNumeric(b) THEN a.v = b.v
    ELSE IF a.k = b.k /\ ~IsContainer(a) THEN a.v = b.v
    ELSE FALSE

\* str(value), as the f-strings of the code render a scalar
PyStr(x) ==
    CASE x.k = "null" -> <<"None">>
      [] x.k = "bool" -> IF x.v = 1 THEN <<"True">> ELSE <<"False">>
      [] x.k = "int" -> IF x.v < 0 THEN <<"-", ToString(-x.v)>> ELSE <<ToString(x.v)>>
      [] x.k = "float" -> (IF x.v < 0 THEN <<"-", ToString(-x.v)>> ELSE <<ToString(x.v)>>)
                          \o <<".", "0">>
      [] x.k = "str" -> x.v
      [] OTHER -> <<"<container>">>

(***************************************************************************)
(* Python's order on strings, restricted to the tokens of the model.       *)
(***************************************************************************)
TokenOrder ==
    <<"-", ".", "0", "1", "2", "=", "X", "Y", "[", "]", "a", "b", "code", "id",
      "meta", "name", "score", "v", "x", "zz", "{ACTUAL_VALUE:", "}">>

Rank(t) == CHOOSE i \in 1..Len(TokenOrder) : TokenOrder[i] = t

RECURSIVE StrLess(_, _)
StrLess(s, t) ==
    IF t = <<>> THEN FALSE
    ELSE IF s = <<>> THEN TRUE
    ELSE IF Head(s) = Head(t) THEN StrLess(Tail(s), Tail(t))
    ELSE Rank(Head(s)) < Rank(Head(t))

(***************************************************************************)
(* String helpers.                                                         *)
(***************************************************************************)
Contains(s, t) == \E i \in 1..Len(s) : s[i] = t

\* s.split(t)[-1]
AfterLast(s, t) ==
    IF Contains(s, t)
    THEN LET i == CHOOSE j \in 1..Len(s) : s[j] = t /\ \A m \in (j+1)..Len(s) : s[m] # t
         IN SubSeq(s, i + 1, Len(s))
    ELSE s

\* s.strip(t)
RECURSIVE LStrip(_, _)
LStrip(s, t) == IF s # <<>> /\ Head(s) = t THEN LStrip(Tail(s), t) ELSE s

RECURSIVE RStrip(_, _)
RStrip(s, t) ==
    IF s # <<>> /\ s[Len(s)] = t THEN RStrip(SubSeq(s, 1, Len(s) - 1), t) ELSE s

Strip(s, t) == RStrip(LStrip(s, t), t)

\* s.endswith(t)
EndsWith(s, t) == Len(t) <= Len(s) /\ SubSeq(s, Len(s) - Len(t) + 1, Len(s)) = t

\* s.split('.'): the parts, each a token sequence
RECURSIVE Split(_, _)
Split(s, t) ==
    IF ~Contains(s, t) THEN <<s>>
    ELSE LET i == CHOOSE j \in 1..Len(s) : s[j] = t /\ \A m \in 1..(j-1) : s[m] # t
         IN <<SubSeq(s, 1, i - 1)>> \o Split(SubSeq(s, i + 1, Len(s)), t)

(***************************************************************************)
(* Options. An absent option is its default: "" for custom_validator_path, *)
(* the empty collection for the rule sets, "unordered" for the list mode.  *)
(***************************************************************************)
NoMap == [p \in {} |-> ""]

DefaultOptions ==
    [custom_validator_path |-> "",
     custom_validators |-> NoMap,
     skip_keys |-> {},
     validate_only_keys |-> {},
     presence_keys |-> {},
     wildcard_keys |-> {},
     not_equal_keys |-> {},
     is_uuid_keys |-> {},
     is_base64_keys |-> {},
     is_pan_keys |-> {},
     is_aadhar_keys |-> {},
     numeric_validations |-> NoMap,
     regex_keys |-> NoMap,
     list_validation_type |-> "unordered",
     required_keys |-> {},
     type_validations |-> NoMap,
     enum_validations |-> NoMap,
     strict_mode |-> FALSE]

(***************************************************************************)
(* The plugin files of the model's file system and what loading each       *)
(* gives: a mapping from a function's name to its behaviour, or an         *)
(* exception (ok = FALSE) for a file that does not exist.                   *)
(*   "pass": returns (True, ""); "fail": returns (False, msg);             *)
(*   "raise": raises; "eq": returns (expected == actual, msg);             *)
(*   "none": returns None; "two": returns a dict of two keys,              *)
(*   {"passed": False, "message": msg}.                                    *)
(***************************************************************************)
NoValidators == [n \in {} |-> ""]

PluginFiles == {"plugins_a.py", "plugins_b.py", "missing.py"}

_load_custom_validators(file_path) ==
    CASE file_path = "plugins_a.py" ->
            [ok |-> TRUE, validators |-> [n \in {"check"} |-> "pass"]]
      [] file_path = "plugins_b.py" ->
            [ok |-> TRUE,
             validators |-> [n \in {"check", "boom", "none", "two"} |->
                               CASE n = "check" -> "fail"
                                 [] n = "boom" -> "raise"
                                 [] OTHER -> n]]
      [] OTHER -> [ok |-> FALSE, validators |-> NoValidators]

(***************************************************************************)
(* The walker's state: the error list it appends to, the exception that    *)
(* is propagating ("" for none), the process-wide registry                 *)
(* json_difference._validators (has = hasattr), the calls made to the      *)
(* loader, and the result field of the record last returned. history is    *)
(* not program state: it keeps the error list as it was after each write   *)
(* to it, in order.                                                        *)
(***************************************************************************)
NoneStr == <<"<None>">>

UnsetRegistry == [has |-> FALSE, map |-> NoValidators]

ErrorRecord(field, jsonpath, message) ==
    [field |-> field, jsonpath |-> jsonpath, message |-> message]

LoadError == ErrorRecord(NoneStr, NoneStr, "Custom validator loading failed")

\* errors.insert(0, record)
errors_insert(st, record) ==
    [st EXCEPT !.errors = <<record>> \o @, !.history = Append(@, <<record>> \o st.errors)]

\* errors.append(record)
errors_append(st, record) ==
    [st EXCEPT !.errors = Append(@, record), !.history = Append(@, Append(st.errors, record))]

_add_error(st, field, jsonpath, message) ==
    errors_append(st, ErrorRecord(field, jsonpath, message))

Raise(st, exception) == [st EXCEPT !.exc = exception]

Return(st, result) == IF st.exc # "" THEN st ELSE [st EXCEPT !.result = result]

\* the load without the hasattr guard: every call, recursive ones too, loads
LoadRetry(st, options) ==
    IF options.custom_validator_path # ""
    THEN LET loaded == _load_custom_validators(options.custom_validator_path)
             called == [st EXCEPT !.loads = Append(@, options.custom_validator_path)]
         IN IF loaded.ok
            THEN [called EXCEPT !.validators = [has |-> TRUE, map |-> loaded.validators]]
            ELSE errors_append(called, LoadError)
    ELSE st

\* the registry is populated when a path is given and the attribute is not
\* yet set; a load that raises is reported once and cached as an empty mapping
LoadStep(st, options) ==
    IF options.custom_validator_path # "" /\ ~st.validators.has
    THEN LET loaded == _load_custom_validators(options.custom_validator_path)
             called == [st EXCEPT !.loads = Append(@, options.custom_validator_path)]
         IN IF loaded.ok
            THEN [called EXCEPT !.validators = [has |-> TRUE, map |-> loaded.validators]]
            ELSE [errors_append(called, LoadError) EXCEPT
                     !.validators = [has |-> TRUE, map |-> NoValidators]]
    ELSE st

(***************************************************************************)
(* Path addressing and rule matching.                                      *)
(***************************************************************************)
get_leaf_key(current_path) ==
    IF Contains(current_path, "]")
    THEN Strip(AfterLast(current_path, "]"), ".")
    ELSE AfterLast(current_path, ".")

\* any(opt == current_path for opt in option_list)
ExactPathOnly(current_path, option_list) == current_path \in option_list

\* a rule list that also names the keys on the way to a path it holds
AncestorsToo(current_path, option_list) ==
    \E opt \in option_list :
        \/ opt = current_path
        \/ opt = get_leaf_key(current_path)
        \/ EndsWith(current_path, <<".">> \o opt)
        \/ /\ Len(opt) > Len(current_path)
           /\ SubSeq(opt, 1, Len(current_path) + 1) = current_path \o <<".">>

\* a rule list that also names everything below a key it matches
DescendantsToo(current_path, option_list) ==
    \E opt \in option_list, n \in 1..Len(current_path) :
        LET prefix == SubSeq(current_path, 1, n)
        IN /\ n = Len(current_path) \/ current_path[n + 1] \in {".", "["}
           /\ \/ opt = prefix
              \/ opt = get_leaf_key(prefix)
              \/ EndsWith(prefix, <<".">> \o opt)

is_in_options(current_path, option_list) ==
    IF option_list = {} THEN FALSE
    ELSE LET leaf_key == get_leaf_key(current_path)
         IN \E opt \in option_list :
               \/ opt = current_path
               \/ opt = leaf_key
               \/ EndsWith(current_path, <<".">> \o opt)

is_in_numeric_options(current_path, option_dict) ==
    is_in_options(current_path, DOMAIN option_dict)

\* f"{current_path}.{key}" if current_path else key
KeyPath(current_path, key) ==
    IF current_path = <<>> THEN <<key>> ELSE current_path \o <<".", key>>

\* the index counted from 1
IndexFromOne(current_path, i) == current_path \o <<"[", ToString(i + 1), "]">>

\* f"{current_path}[{i}]", i counted from 0
IndexPath(current_path, i) == current_path \o <<"[", ToString(i), "]">>

\* f"{current_path}[{match_key}={item_key}]"
ItemPath(current_path, match_key, item_key) ==
    current_path \o <<"[", match_key, "=">> \o PyStr(item_key) \o <<"]">>

(***************************************************************************)
(* Leaf-level helpers.                                                     *)
(***************************************************************************)
Digits == <<"0", "1", "2">>

IsDigit(t) == \E i \in 1..Len(Digits) : Digits[i] = t

DigitValue(t) == (CHOOSE i \in 1..Len(Digits) : Digits[i] = t) - 1

\* float(value): ok = FALSE when Python raises ValueError or TypeError
PyFloat(x) ==
    IF IsNumeric(x) THEN [ok |-> TRUE, value |-> x.v]
    ELSE IF IsStr(x) /\ Len(x.v) >= 1 /\ IsDigit(x.v[1])
            /\ (Len(x.v) = 1 \/ (Len(x.v) = 3 /\ x.v[2] = "." /\ x.v[3] = "0"))
    THEN [ok |-> TRUE, value |-> DigitValue(x.v[1])]
    ELSE [ok |-> FALSE, value |-> 0]

_is_numeric_valid(actual_value, rule) ==
    LET actual_num == PyFloat(actual_value)
        expected_num == PyFloat(rule.value)
    IN IF ~actual_num.ok \/ ~expected_num.ok
       THEN [result |-> FALSE, msg |-> "Value is not a valid number for comparison"]
       ELSE CASE rule.operator = "gt" ->
                   IF actual_num.value > expected_num.value
                   THEN [result |-> TRUE, msg |-> ""]
                   ELSE [result |-> FALSE, msg |-> "Value is not greater than"]
              [] rule.operator = "lt" ->
                   IF actual_num.value < expected_num.value
                   THEN [result |-> TRUE, msg |-> ""]
                   ELSE [result |-> FALSE, msg |-> "Value is not less than"]
              [] rule.operator = "ge" ->
                   IF actual_num.value >= expected_num.value
                   THEN [result |-> TRUE, msg |-> ""]
                   ELSE [result |-> FALSE, msg |-> "Value is not greater than or equal to"]
              [] rule.operator = "le" ->
                   IF actual_num.value <= expected_num.value
                   THEN [result |-> TRUE, msg |-> ""]
                   ELSE [result |-> FALSE, msg |-> "Value is not less than or equal to"]
              [] OTHER -> [result |-> FALSE, msg |-> "Invalid operator"]

\* the registered function's behaviour for current_path, "" for None
is_custom_validator(current_path, validators, options) ==
    IF current_path \in DOMAIN options.custom_validators
    THEN LET method_name == options.custom_validators[current_path]
         IN IF method_name # "" /\ method_name \in DOMAIN validators.map
            THEN validators.map[method_name]
            ELSE ""
    ELSE ""

\* result, msg = validator(expected, actual) inside try: "pass", "fail" or
\* "raise". Unpacking None raises TypeError; unpacking a dict of two keys
\* gives its keys, and the first, a non-empty string, counts as passed.
CallValidator(behaviour, expected_value, actual_value) ==
    CASE behaviour = "eq" -> IF PyEq(expected_value, actual_value) THEN "pass" ELSE "fail"
      [] behaviour \in {"pass", "fail"} -> behaviour
      [] behaviour = "two" -> "pass"
      [] OTHER -> "raise"

\* the characters [a-zA-Z0-9_.-] of a reference path
RefToken(t) == t \notin {"[", "]", "=", "{ACTUAL_VALUE:", "}"}

IsReference(s) ==
    /\ Len(s) >= 3
    /\ s[1] = "{ACTUAL_VALUE:"
    /\ s[Len(s)] = "}"
    /\ \A i \in 2..(Len(s) - 1) : RefToken(s[i])

RECURSIVE Lookup(_, _)
Lookup(current_ref_value, parts) ==
    IF parts = <<>> THEN [ok |-> TRUE, value |-> current_ref_value]
    ELSE LET part == Head(parts)
         IN IF IsDict(current_ref_value) /\ Len(part) = 1
               /\ part[1] \in DOMAIN current_ref_value.v
            THEN Lookup(current_ref_value.v[part[1]], Tail(parts))
            ELSE [ok |-> FALSE, value |-> None]

ResolveNothing(expected_value, root_actual) == [ok |-> TRUE, value |-> expected_value]

_resolve_reference(expected_value, root_actual) ==
    IF ~IsStr(expected_value) THEN [ok |-> TRUE, value |-> expected_value]
    ELSE IF ~IsReference(expected_value.v) THEN [ok |-> TRUE, value |-> expected_value]
    ELSE LET ref_path == SubSeq(expected_value.v, 2, Len(expected_value.v) - 1)
         IN Lookup(root_actual, Split(ref_path, "."))

(***************************************************************************)
(* The format patterns, on the strings of the model.                       *)
(***************************************************************************)
\* "123e4567-e89b-12d3-a456-426614174000", '-' being a token of its own
UuidSample == <<"123e4567", "-", "e89b", "-", "12d3", "-", "a456", "-", "426614174000">>
PanSample == "ABCDE1234F"
AadhaarSample == "123412341234"

\* the tokens made of the characters [A-Za-z0-9+/] only, with their lengths
Base64Tokens ==
    <<"0", "1", "2", "X", "Y", "a", "b", "v", "x", "id", "zz", "code", "meta",
      "name", "QUJD", "score", "ABCDE1234F", "123412341234">>

Base64TokenLen == <<1, 1, 1, 1, 1, 1, 1, 1, 1, 2, 2, 4, 4, 4, 4, 5, 10, 12>>

IsBase64Token(t) == \E i \in 1..Len(Base64Tokens) : Base64Tokens[i] = t

RECURSIVE CharLen(_)
CharLen(s) ==
    IF s = <<>> THEN 0
    ELSE Base64TokenLen[CHOOSE i \in 1..Len(Base64Tokens) : Base64Tokens[i] = Head(s)]
         + CharLen(Tail(s))

uuid_pattern(s) == s = UuidSample

base64_pattern(s) ==
    LET core == RStrip(s, "=")
        pad == Len(s) - Len(core)
    IN /\ \A i \in 1..Len(core) : IsBase64Token(core[i])
       /\ \/ pad = 0 /\ CharLen(core) % 4 = 0
          \/ pad = 1 /\ CharLen(core) % 4 = 3
          \/ pad = 2 /\ CharLen(core) % 4 = 2

pan_pattern(s) == s = <<PanSample>>

aadhar_pattern(s) == s = <<AadhaarSample>>

\* re.fullmatch(regex_pattern, s) for the patterns of the model
RegexFullMatch(regex_pattern, s) ==
    CASE regex_pattern = "[XY]" -> s \in {<<"X">>, <<"Y">>}
      [] regex_pattern = "X" -> s = <<"X">>
      [] OTHER -> FALSE

(***************************************************************************)
(* sorted(): of a set of dict keys, and of the identity values of a list   *)
(* reconciliation (which raises TypeError when two of them do not compare).*)
(***************************************************************************)
RECURSIVE SortedKeys(_)
SortedKeys(S) ==
    IF S = {} THEN <<>>
    ELSE LET m == CHOOSE x \in S : \A y \in S : Rank(x) <= Rank(y)
         IN <<m>> \o SortedKeys(S \ {m})

Comparable(keys) ==
    \/ Len(keys) <= 1
    \/ \A i \in 1..Len(keys) : IsNumeric(keys[i])
    \/ \A i \in 1..Len(keys) : IsStr(keys[i])

ItemLess(a, b) == IF IsNumeric(a) THEN a.v < b.v ELSE StrLess(a.v, b.v)

Remove(s, i) == SubSeq(s, 1, i - 1) \o SubSeq(s, i + 1, Len(s))

\* the keys in the order the set happened to hold them
Unsorted(keys) == keys

RECURSIVE SortedItems(_)
SortedItems(keys) ==
    IF keys = <<>> THEN <<>>
    ELSE LET i == CHOOSE j \in 1..Len(keys) :
                     \A m \in 1..Len(keys) : m = j \/ ItemLess(keys[j], keys[m])
         IN <<keys[i]>> \o SortedItems(Remove(keys, i))

(***************************************************************************)
(* {item[match_key]: item for item in list}: a Python dict, as the         *)
(* sequence of its entries in insertion order. Keys that are equal (1,     *)
(* 1.0 and True) are one entry, which keeps the first key and the last     *)
(* item. ok = FALSE when a key is unhashable (a list or a dict).           *)
(***************************************************************************)
MapHas(map, key) == \E i \in 1..Len(map) : PyEq(map[i].key, key)

MapGet(map, key) == map[CHOOSE i \in 1..Len(map) : PyEq(map[i].key, key)].item

\* a dict comprehension that kept the first item of a key
MapPutFirst(map, key, item) ==
    IF MapHas(map, key) THEN map ELSE Append(map, [key |-> key, item |-> item])

MapPut(map, key, item) ==
    IF MapHas(map, key)
    THEN [i \in 1..Len(map) |->
            IF PyEq(map[i].key, key) THEN [key |-> map[i].key, item |-> item] ELSE map[i]]
    ELSE Append(map, [key |-> key, item |-> item])

RECURSIVE ItemMap(_, _, _)
ItemMap(list, match_key, map) ==
    IF list = <<>> THEN [ok |-> TRUE, map |-> map]
    ELSE LET item == Head(list)
             key == item.v[match_key]
         IN IF IsContainer(key) THEN [ok |-> FALSE, map |-> map]
            ELSE ItemMap(Tail(list), match_key, MapPut(map, key, item))

\* set(expected_map.keys()).union(set(actual_map.keys()))
RECURSIVE KeyUnion(_, _)
KeyUnion(keys, map) ==
    IF map = <<>> THEN keys
    ELSE KeyUnion(IF \E i \in 1..Len(keys) : PyEq(keys[i], Head(map).key)
                  THEN keys ELSE Append(keys, Head(map).key),
                  Tail(map))

matching_keys == <<"name", "id", "qId", "chanUid", "hubId">>

HasKeyInAll(list, key) == \A i \in 1..Len(list) : key \in DOMAIN list[i].v

\* the first candidate present in every item of both lists, "" for None
MatchKey(expected_list, actual_list) ==
    LET ok == {i \in 1..Len(matching_keys) :
                 HasKeyInAll(expected_list, matching_keys[i])
                 /\ HasKeyInAll(actual_list, matching_keys[i])}
    IN IF ok = {} THEN ""
       ELSE matching_keys[CHOOSE i \in ok : \A j \in ok : i <= j]

Min(a, b) == IF a <= b THEN a ELSE b

(***************************************************************************)
(* The walker. Every operator takes the walker's state and gives the       *)
(* state after it; a propagating exception ends every loop.                *)
(***************************************************************************)
RECURSIVE json_difference(_, _, _, _, _, _)
RECURSIVE DictLoop(_, _, _, _, _, _, _)
RECURSIVE PositionalLoop(_, _, _, _, _, _, _)
RECURSIVE ItemLoop(_, _, _, _, _, _, _, _)

\* the iteration with the validator looked up before presence_keys
DictKeyValidatorFirst(key, expected_dict, actual_dict, current_path, st, options, root_actual) ==
    LET key_path == KeyPath(current_path, key)
        field_name == get_leaf_key(key_path)
        is_skippable == is_in_options(key_path, options.skip_keys)
        should_validate ==
            /\ ~is_skippable
            /\ \/ options.validate_only_keys = {}
               \/ is_in_options(key_path, options.validate_only_keys)
        custom_validator == is_custom_validator(key_path, st.validators, options)
    IN IF ~should_validate THEN st
       ELSE IF key \notin DOMAIN actual_dict.v
       THEN IF is_in_options(key_path, options.presence_keys)
            THEN _add_error(st, field_name, key_path, "Required key missing in actual")
            ELSE _add_error(st, field_name, key_path, "Missing key in actual")
       ELSE IF key \notin DOMAIN expected_dict.v
       THEN _add_error(st, field_name, key_path, "Extra key in actual")
       ELSE IF custom_validator = "" /\ is_in_options(key_path, options.presence_keys)
       THEN st
       ELSE IF custom_validator # ""
       THEN LET outcome == CallValidator(custom_validator, expected_dict.v[key],
                                         actual_dict.v[key])
            IN CASE outcome = "pass" -> st
                 [] outcome = "fail" ->
                      _add_error(st, field_name, key_path, "Custom validation failed")
                 [] OTHER ->
                      _add_error(st, field_name, key_path, "Custom validator raised an error")
       ELSE json_difference(expected_dict.v[key], actual_dict.v[key], key_path, st,
                            options, root_actual)

\* one iteration of the loop of compare_dicts
DictKey(key, expected_dict, actual_dict, current_path, st, options, root_actual) ==
    LET key_path == KeyPath(current_path, key)
        field_name == get_leaf_key(key_path)
        is_skippable == is_in_options(key_path, options.skip_keys)
        should_validate ==
            /\ ~is_skippable
            /\ \/ options.validate_only_keys = {}
               \/ is_in_options(key_path, options.validate_only_keys)
        custom_validator == is_custom_validator(key_path, st.validators, options)
    IN IF ~should_validate THEN st
       ELSE IF key \notin DOMAIN actual_dict.v
       THEN IF is_in_options(key_path, options.presence_keys)
            THEN _add_error(st, field_name, key_path, "Required key missing in actual")
            ELSE _add_error(st, field_name, key_path, "Missing key in actual")
       ELSE IF key \notin DOMAIN expected_dict.v
       THEN _add_error(st, field_name, key_path, "Extra key in actual")
       ELSE IF is_in_options(key_path, options.presence_keys) THEN st
       ELSE IF custom_validator # ""
       THEN LET outcome == CallValidator(custom_validator, expected_dict.v[key],
                                         actual_dict.v[key])
            IN CASE outcome = "pass" -> st
                 [] outcome = "fail" ->
                      _add_error(st, field_name, key_path, "Custom validation failed")
                 [] OTHER ->
                      _add_error(st, field_name, key_path, "Custom validator raised an error")
       ELSE json_difference(expected_dict.v[key], actual_dict.v[key], key_path, st,
                            options, root_actual)

DictLoop(keys, expected_dict, actual_dict, current_path, st, options, root_actual) ==
    IF keys = <<>> \/ st.exc # "" THEN st
    ELSE DictLoop(Tail(keys), expected_dict, actual_dict, current_path,
                  DictKey(Head(keys), expected_dict, actual_dict, current_path, st,
                          options, root_actual),
                  options, root_actual)

compare_dicts(expected_dict, actual_dict, current_path, st, options, root_actual) ==
    LET all_keys == DOMAIN expected_dict.v \cup DOMAIN actual_dict.v
    IN DictLoop(SortedKeys(all_keys), expected_dict, actual_dict, current_path, st,
                options, root_actual)

\* for i in range(min_len): json_difference(expected_list[i], actual_list[i], ...)
PositionalLoop(i, min_len, expected_list, actual_list, current_path, st, ctx) ==
    IF i >= min_len \/ st.exc # "" THEN st
    ELSE PositionalLoop(i + 1, min_len, expected_list, actual_list, current_path,
                        json_difference(expected_list[i + 1], actual_list[i + 1],
                                        IndexPath(current_path, i), st,
                                        ctx.options, ctx.root_actual),
                        ctx)

\* the pairwise comparisons alone, the lengths not compared
PairsOnly(expected_list, actual_list, current_path, st, options, root_actual) ==
    PositionalLoop(0, Min(Len(expected_list), Len(actual_list)), expected_list,
                   actual_list, current_path, st,
                   [options |-> options, root_actual |-> root_actual])

compare_lists_symmetric(expected_list, actual_list, current_path, st, options, root_actual) ==
    LET field_name == get_leaf_key(current_path)
        st1 == IF Len(expected_list) # Len(actual_list)
               THEN _add_error(st, field_name, current_path, "List length mismatch")
               ELSE st
    IN PositionalLoop(0, Min(Len(expected_list), Len(actual_list)), expected_list,
                      actual_list, current_path, st1,
                      [options |-> options, root_actual |-> root_actual])

\* for item_key in sorted(list(all_keys)): ...
ItemLoop(keys, match_key, expected_map, actual_map, current_path, st, options, root_actual) ==
    IF keys = <<>> \/ st.exc # "" THEN st
    ELSE LET item_key == Head(keys)
             item_path == ItemPath(current_path, match_key, item_key)
             item_field_name == get_leaf_key(item_path)
             st1 == IF MapHas(expected_map, item_key) /\ MapHas(actual_map, item_key)
                    THEN json_difference(MapGet(expected_map, item_key),
                                         MapGet(actual_map, item_key), item_path, st,
                                         options, root_actual)
                    ELSE IF MapHas(expected_map, item_key)
                    THEN _add_error(st, item_field_name, item_path,
                                    "Missing item in actual list")
                    ELSE _add_error(st, item_field_name, item_path,
                                    "Extra item in actual list")
         IN ItemLoop(Tail(keys), match_key, expected_map, actual_map, current_path, st1,
                     options, root_actual)

compare_lists_unordered(expected_list, actual_list, current_path, st, options, root_actual) ==
    LET both == expected_list \o actual_list
        match_key == MatchKey(expected_list, actual_list)
    IN IF \E i \in 1..Len(both) : ~IsDict(both[i])
       THEN compare_lists_symmetric(expected_list, actual_list, current_path, st,
                                    options, root_actual)
       ELSE IF match_key # ""
       THEN LET expected_map == ItemMap(expected_list, match_key, <<>>)
                actual_map == ItemMap(actual_list, match_key, <<>>)
                all_keys == KeyUnion(KeyUnion(<<>>, expected_map.map), actual_map.map)
            IN IF ~expected_map.ok \/ ~actual_map.ok THEN Raise(st, "TypeError")
               ELSE IF ~Comparable(all_keys) THEN Raise(st, "TypeError")
               ELSE ItemLoop(SortedItems(all_keys), match_key, expected_map.map,
                             actual_map.map, current_path, st, options, root_actual)
       ELSE LET field_name == get_leaf_key(current_path)
                st1 == IF Len(expected_list) # Len(actual_list)
                       THEN _add_error(st, field_name, current_path, "List length mismatch")
                       ELSE st
            IN PositionalLoop(0, Min(Len(expected_list), Len(actual_list)),
                              expected_list, actual_list, current_path, st1,
                              [options |-> options, root_actual |-> root_actual])

\* the rule of numeric_validations that governs path: the code indexes the map by
\* the full path, and raises KeyError (ok = FALSE) when the rule is registered
\* under the leaf key or a suffix only
NumericRule(path, options) ==
    IF path \in DOMAIN options.numeric_validations
    THEN [ok |-> TRUE, rule |-> options.numeric_validations[path]]
    ELSE [ok |-> FALSE, rule |-> [operator |-> "", value |-> None]]

\* the branch for two values of which neither is a dict or a list
Leaf(expected, actual, path, st, options, root_actual) ==
    LET field_name == get_leaf_key(path)
        resolution == _resolve_reference(expected, root_actual)
        resolved_expected == resolution.value
        is_custom == is_custom_validator(path, st.validators, options)
        Format(ok, message) ==
            Return(IF ok THEN st ELSE _add_error(st, field_name, path, message),
                   ok /\ st.errors = <<>>)
    IN IF ~resolution.ok
       THEN Return(_add_error(st, field_name, path, "Reference resolution failed"), FALSE)
       ELSE IF is_custom # ""
       THEN LET outcome == CallValidator(is_custom, resolved_expected, actual)
            IN CASE outcome = "pass" -> Return(st, st.errors = <<>>)
                 [] outcome = "fail" ->
                      Return(_add_error(st, field_name, path, "Custom validation failed"),
                             FALSE)
                 [] OTHER ->
                      Return(_add_error(st, field_name, path,
                                        "Custom validator raised an error"), FALSE)
       ELSE IF is_in_options(path, options.wildcard_keys) THEN Return(st, TRUE)
       ELSE IF is_in_numeric_options(path, options.numeric_validations)
       THEN LET found == NumericRule(path, options)
            IN IF ~found.ok THEN Raise(st, "KeyError")
               ELSE Format(_is_numeric_valid(actual, found.rule).result,
                           "Numeric validation failed")
       ELSE IF is_in_options(path, options.is_uuid_keys)
       THEN Format(IsStr(actual) /\ uuid_pattern(actual.v), "UUID format mismatch")
       ELSE IF is_in_options(path, options.is_base64_keys)
       THEN Format(IsStr(actual) /\ base64_pattern(actual.v), "Base64 format mismatch")
       ELSE IF is_in_options(path, options.is_pan_keys)
       THEN Format(IsStr(actual) /\ pan_pattern(actual.v), "PAN format mismatch")
       ELSE IF is_in_options(path, options.is_aadhar_keys)
       THEN Format(IsStr(actual) /\ aadhar_pattern(actual.v), "Aadhaar format mismatch")
       ELSE IF path \in DOMAIN options.regex_keys
       THEN Format(IsStr(actual) /\ RegexFullMatch(options.regex_keys[path], actual.v),
                   "Regex mismatch")
       ELSE IF is_in_options(path, options.not_equal_keys)
       THEN Format(~PyEq(resolved_expected, actual), "Value should not be equal")
       ELSE Format(PyEq(resolved_expected, actual), "Value mismatch")

\* the walk with a last branch that reports a pair of unlike kinds
WalkReportingKinds(expected, actual, path, st, options, root_actual) ==
    IF IsDict(expected) /\ IsDict(actual)
    THEN LET done == compare_dicts(expected, actual, path, st, options, root_actual)
         IN Return(done, done.errors = <<>>)
    ELSE IF IsList(expected) /\ IsList(actual)
    THEN LET done == IF options.list_validation_type = "symmetric"
                     THEN compare_lists_symmetric(expected.v, actual.v, path, st,
                                                  options, root_actual)
                     ELSE compare_lists_unordered(expected.v, actual.v, path, st,
                                                  options, root_actual)
         IN Return(done, done.errors = <<>>)
    ELSE IF ~(IsContainer(expected) \/ IsContainer(actual))
    THEN Leaf(expected, actual, path, st, options, root_actual)
    ELSE Return(_add_error(st, get_leaf_key(path), path, "Value mismatch"), FALSE)

\* the walk of one call, after the registry is populated
Walk(expected, actual, path, st, options, root_actual) ==
    IF IsDict(expected) /\ IsDict(actual)
    THEN LET done == compare_dicts(expected, actual, path, st, options, root_actual)
         IN Return(done, done.errors = <<>>)
    ELSE IF IsList(expected) /\ IsList(actual)
    THEN LET done == IF options.list_validation_type = "symmetric"
                     THEN compare_lists_symmetric(expected.v, actual.v, path, st,
                                                  options, root_actual)
                     ELSE compare_lists_unordered(expected.v, actual.v, path, st,
                                                  options, root_actual)
         IN Return(done, done.errors = <<>>)
    ELSE IF ~(IsContainer(expected) \/ IsContainer(actual))
    THEN Leaf(expected, actual, path, st, options, root_actual)
    ELSE Return(st, st.errors = <<>>)

json_difference(expected, actual, path, st, options, root_actual) ==
    Walk(expected, actual, path, LoadStep(st, options), options, root_actual)

(***************************************************************************)
(* json_validate: the walker that checks the shape of data against a       *)
(* contract built by example. Its helpers _add_error, get_leaf_key and     *)
(* is_in_options are the same code as those of json_difference; its        *)
(* registry is an attribute of its own, json_validate._validators. A dict  *)
(* is walked in the order of its keys, which is the insertion order of a   *)
(* document whose keys are written in ascending order.                     *)
(***************************************************************************)
RECURSIVE validate_dict(_, _, _, _, _)
RECURSIVE validate_list(_, _, _, _, _)
RECURSIVE ContractLoop(_, _, _, _, _, _)
RECURSIVE ElementLoop(_, _, _, _, _, _)

\* type(data_value).__name__
TypeName(x) ==
    CASE x.k = "null" -> "NoneType"
      [] x.k = "bool" -> "bool"
      [] x.k = "int" -> "int"
      [] x.k = "float" -> "float"
      [] x.k = "str" -> "str"
      [] x.k = "list" -> "list"
      [] OTHER -> "dict"

type_map(actual_type) ==
    CASE actual_type = "str" -> "string"
      [] actual_type \in {"int", "float"} -> "number"
      [] actual_type = "bool" -> "boolean"
      [] actual_type = "list" -> "array"
      [] actual_type = "dict" -> "object"
      [] OTHER -> actual_type

\* the type check of validate_field: isinstance(True, (int, float)) holds
TypeMismatch(expected_type, data_value) ==
    CASE expected_type = "number" -> ~IsNumeric(data_value)
      [] expected_type = "string" -> ~IsStr(data_value)
      [] expected_type = "boolean" -> data_value.k # "bool"
      [] expected_type = "array" -> ~IsList(data_value)
      [] expected_type = "object" -> ~IsDict(data_value)
      [] expected_type = "any" -> FALSE
      [] OTHER -> type_map(TypeName(data_value)) # expected_type

\* options.get(name, {}).get(path), truthy
HasRule(rules, path, empty) == path \in DOMAIN rules /\ rules[path] # empty

\* data_value in allowed_values
EnumHas(allowed_values, data_value) ==
    \E x \in allowed_values : x = data_value \/ PyEq(x, data_value)

\* the numeric rule of validate_field: no error for an operator it does not know
NumericHolds(data_value, rule) ==
    LET actual_num == PyFloat(data_value)
        expected_num == PyFloat(rule.value)
    IN IF ~actual_num.ok \/ ~expected_num.ok THEN FALSE
       ELSE CASE rule.operator = "gt" -> actual_num.value > expected_num.value
              [] rule.operator = "lt" -> actual_num.value < expected_num.value
              [] rule.operator = "ge" -> actual_num.value >= expected_num.value
              [] rule.operator = "le" -> actual_num.value <= expected_num.value
              [] rule.operator = "eq" -> actual_num.value = expected_num.value
              [] rule.operator = "ne" -> actual_num.value # expected_num.value
              [] OTHER -> TRUE

validate_field(data_value, contract_value, path, st, options) ==
    LET field_name == get_leaf_key(path)
        method_name == IF path \in DOMAIN options.custom_validators
                       THEN options.custom_validators[path] ELSE ""
        custom_validator == IF method_name # "" /\ method_name \in DOMAIN st.validators.map
                            THEN st.validators.map[method_name] ELSE ""
        typed == IF HasRule(options.type_validations, path, "")
                    /\ TypeMismatch(options.type_validations[path], data_value)
                 THEN _add_error(st, field_name, path, "Type mismatch")
                 ELSE st
        Check(ok, message) ==
            IF ok THEN typed ELSE _add_error(typed, field_name, path, message)
    IN IF custom_validator # ""
       THEN LET outcome == CallValidator(custom_validator, contract_value, data_value)
            IN CASE outcome = "pass" -> st
                 [] outcome = "fail" ->
                      _add_error(st, field_name, path, "Custom validation failed")
                 [] OTHER ->
                      _add_error(st, field_name, path, "Custom validator raised an error")
       ELSE IF is_in_options(path, options.wildcard_keys) THEN typed
       ELSE IF is_in_options(path, options.is_uuid_keys)
       THEN Check(IsStr(data_value) /\ uuid_pattern(data_value.v), "UUID format mismatch")
       ELSE IF is_in_options(path, options.is_pan_keys)
       THEN Check(IsStr(data_value) /\ pan_pattern(data_value.v), "PAN format mismatch")
       ELSE IF is_in_options(path, options.is_aadhar_keys)
       THEN Check(IsStr(data_value) /\ aadhar_pattern(data_value.v),
                  "Aadhaar format mismatch")
       ELSE IF HasRule(options.regex_keys, path, "")
       THEN Check(IsStr(data_value)
                  /\ RegexFullMatch(options.regex_keys[path], data_value.v),
                  "Regex mismatch")
       ELSE IF HasRule(options.enum_validations, path, {})
       THEN Check(EnumHas(options.enum_validations[path], data_value),
                  "Enum validation failed")
       ELSE IF path \in DOMAIN options.numeric_validations
       THEN Check(NumericHolds(data_value, options.numeric_validations[path]),
                  "Numeric validation failed")
       ELSE typed

\* every absent key is reported, whether required_keys matches it or not
AbsentIsMissing(key, data_dict, contract_dict, current_path, st, options) ==
    LET key_path == KeyPath(current_path, key)
        value == contract_dict.v[key]
    IN IF key \notin DOMAIN data_dict.v
       THEN _add_error(st, <<key>>, key_path, "Required key missing")
       ELSE IF IsDict(value) /\ IsDict(data_dict.v[key])
       THEN validate_dict(data_dict.v[key], value, key_path, st, options)
       ELSE IF IsList(value) /\ IsList(data_dict.v[key])
       THEN validate_list(data_dict.v[key].v, value.v, key_path, st, options)
       ELSE validate_field(data_dict.v[key], value, key_path, st, options)

\* the value of one contract key against the data
ContractKey(key, data_dict, contract_dict, current_path, st, options) ==
    LET key_path == KeyPath(current_path, key)
        value == contract_dict.v[key]
    IN IF key \notin DOMAIN data_dict.v
       THEN IF is_in_options(key_path, options.required_keys)
            THEN _add_error(st, <<key>>, key_path, "Required key missing")
            ELSE st
       ELSE IF IsDict(value) /\ IsDict(data_dict.v[key])
       THEN validate_dict(data_dict.v[key], value, key_path, st, options)
       ELSE IF IsList(value) /\ IsList(data_dict.v[key])
       THEN validate_list(data_dict.v[key].v, value.v, key_path, st, options)
       ELSE validate_field(data_dict.v[key], value, key_path, st, options)

\* for key, value in contract_dict.items(): ...
ContractLoop(keys, data_dict, contract_dict, current_path, st, options) ==
    IF keys = <<>> THEN st
    ELSE ContractLoop(Tail(keys), data_dict, contract_dict, current_path,
                      ContractKey(Head(keys), data_dict, contract_dict, current_path, st,
                                  options),
                      options)

\* for key in data_dict: if key not in contract_dict: ...
RECURSIVE StrictLoop(_, _, _, _)
StrictLoop(keys, contract_dict, current_path, st) ==
    IF keys = <<>> THEN st
    ELSE StrictLoop(Tail(keys), contract_dict, current_path,
                    IF Head(keys) \notin DOMAIN contract_dict.v
                    THEN _add_error(st, <<Head(keys)>>, KeyPath(current_path, Head(keys)),
                                    "Extra key not in contract")
                    ELSE st)

validate_dict(data_dict, contract_dict, current_path, st, options) ==
    LET checked == ContractLoop(SortedKeys(DOMAIN contract_dict.v), data_dict,
                                contract_dict, current_path, st, options)
    IN IF options.strict_mode
       THEN StrictLoop(SortedKeys(DOMAIN data_dict.v), contract_dict, current_path, checked)
       ELSE checked

\* for i, item in enumerate(data_list): ...
ElementLoop(i, data_list, template_item, current_path, st, options) ==
    IF i >= Len(data_list) THEN st
    ELSE LET item == data_list[i + 1]
             item_path == IndexPath(current_path, i)
         IN ElementLoop(i + 1, data_list, template_item, current_path,
                        IF IsDict(template_item) /\ IsDict(item)
                        THEN validate_dict(item, template_item, item_path, st, options)
                        ELSE IF IsList(template_item) /\ IsList(item)
                        THEN validate_list(item.v, template_item.v, item_path, st, options)
                        ELSE validate_field(item, template_item, item_path, st, options),
                        options)

validate_list(data_list, contract_list, current_path, st, options) ==
    IF contract_list = <<>> THEN st
    ELSE ElementLoop(0, data_list, contract_list[1], current_path, st, options)

\* the registry of json_validate is populated like that of json_difference
ContractLoadStep(st, options) ==
    IF options.custom_validator_path # "" /\ ~st.validators.has
    THEN LET loaded == _load_custom_validators(options.custom_validator_path)
             called == [st EXCEPT !.loads = Append(@, options.custom_validator_path)]
         IN IF loaded.ok
            THEN [called EXCEPT !.validators = [has |-> TRUE, map |-> loaded.validators]]
            ELSE [errors_append(called, LoadError) EXCEPT
                     !.validators = [has |-> TRUE, map |-> NoValidators]]
    ELSE st

json_validate(data, contract, st, options) ==
    LET start == ContractLoadStep(st, options)
        done == IF IsDict(data) /\ IsDict(contract)
                THEN validate_dict(data, contract, <<>>, start, options)
                ELSE IF IsList(data) /\ IsList(contract)
                THEN validate_list(data.v, contract.v, <<>>, start, options)
                ELSE validate_field(data, contract, <<>>, start, options)
    IN Return(done, done.errors = <<>>)

(***************************************************************************)
(* The inputs of the model: bounded families of (expected, actual, path,   *)
(* options).                                                               *)
(***************************************************************************)
Ref(ref_path) == JText(<<"{ACTUAL_VALUE:">> \o ref_path \o <<"}">>)

Scalars ==
    {None, JBool(TRUE), JInt(1), JInt(2), JFloat(1), JStr("X"), JStr("Y"),
     Ref(<<"meta", ".", "id">>), Ref(<<"a">>)}

Obj(id, v) == JDict([kk \in {"id", "v"} |-> IF kk = "id" THEN id ELSE v])

\* the objects the lists are made of
Objects ==
    {Obj(JInt(1), JStr("a")), Obj(JInt(2), JStr("b")), Obj(JInt(2), JStr("a")),
     Obj(JInt(1), Ref(<<"a">>)), Obj(JStr("X"), JStr("a")), Obj(JList(<<>>), JStr("a"))}

SeqsOver(S, n) == UNION {[1..m -> S] : m \in 0..n}

ObjectLists == {JList(s) : s \in SeqsOver(Objects, MaxLen)}

FlatLists == {JList(s) : s \in SeqsOver({JInt(1), JStr("X"), None}, MaxLen)}

FlatDicts ==
    {JDict(f) : f \in UNION {[K -> {JInt(1), JStr("X"), Ref(<<"a">>), Ref(<<"b">>)}] :
                              K \in SUBSET {"a", "b"}}}

NestedDicts == {JDict([kk \in {"a"} |-> x]) : x \in FlatLists \cup FlatDicts \cup ObjectLists}

Trees == Scalars \cup FlatLists \cup FlatDicts \cup ObjectLists \cup NestedDicts

Call(expected, actual, path, options) ==
    [expected |-> expected, actual |-> actual, path |-> path, options |-> options]

\* a tree against itself, default options
SelfCalls == {Call(t, t, <<>>, DefaultOptions) : t \in Trees}

\* two lists of objects, in the default list mode and in symmetric mode
SwapLists ==
    {JList(s) : s \in SeqsOver({Obj(JInt(1), JStr("a")), Obj(JInt(2), JStr("b"))}, MaxLen)}

ListCalls ==
    {Call(e, a, <<>>, DefaultOptions) : e \in ObjectLists, a \in ObjectLists}
    \cup {Call(e, a, <<>>, [DefaultOptions EXCEPT !.list_validation_type = "symmetric"]) :
            e \in SwapLists, a \in SwapLists}

\* an expected leaf that refers to the actual data
RefCalls ==
    {Call(JDict([kk \in {"id"} |-> r]), a, <<>>, DefaultOptions) :
        r \in {Ref(<<"meta", ".", "id">>), Ref(<<"meta">>), Ref(<<"id">>),
               Ref(<<"meta", ".", "zz">>), Ref(<<"id", ".", "x">>), JStr("X")},
        a \in {JDict([kk \in {"id", "meta"} |->
                        IF kk = "id" THEN i ELSE JDict([k2 \in {"id"} |-> m])]) :
                  i \in {JStr("X"), JStr("Y")}, m \in {JStr("X"), JStr("Y")}}
              \cup {JDict([kk \in {"id"} |-> JStr("X")])}}

\* a leaf governed by a rule registered under its full path, its leaf key or neither
Score(n) == JDict([kk \in {"a"} |-> JDict([k2 \in {"score"} |-> n])])

GeRule(n) == [operator |-> "ge", value |-> JInt(n)]

RuleOptions ==
    {[DefaultOptions EXCEPT !.numeric_validations = [p \in {k} |-> GeRule(2)]] :
        k \in {<<"score">>, <<"a", ".", "score">>, <<"zz">>}}
    \cup {[DefaultOptions EXCEPT !.regex_keys = [p \in {k} |-> "[XY]"]] :
        k \in {<<"score">>, <<"a", ".", "score">>}}
    \cup {[DefaultOptions EXCEPT !.wildcard_keys = {k}] :
        k \in {<<"score">>, <<"a", ".", "score">>}}
    \cup {[DefaultOptions EXCEPT !.is_uuid_keys = {k}] :
        k \in {<<"score">>, <<"a", ".", "score">>}}

ScoreExpected == {JInt(1), JStr("X")}

ScoreActual == {JInt(1), JInt(2), JStr("X"), JStr("a")}

RuleCalls ==
    {Call(Score(e), Score(a), <<>>, o) :
        e \in ScoreExpected, a \in ScoreActual, o \in RuleOptions}

\* the calls of a session: the plugin file and the registered validators vary
SessionOptions ==
    {[DefaultOptions EXCEPT !.custom_validator_path = f, !.custom_validators = cv,
                            !.wildcard_keys = w] :
        f \in PluginFiles \cup {""},
        cv \in {NoMap, [p \in {<<"a">>} |-> "check"]},
        w \in {{}, {<<"x">>}}}

SessionCalls ==
    {Call(JDict([kk \in {"a"} |-> JInt(1)]), JDict([kk \in {"a"} |-> JInt(2)]), <<>>, o) :
        o \in {o \in SessionOptions : o.wildcard_keys = {}}}
    \cup {Call(JInt(1), JInt(2), <<"x">>, o) :
        o \in {o \in SessionOptions :
                  /\ o.custom_validators = NoMap
                  /\ o.wildcard_keys # {}
                  /\ o.custom_validator_path \in {"", "missing.py"}}}

\* two scalars under one key, no rule
PlainScalars ==
    {None, JBool(TRUE), JBool(FALSE), JInt(0), JInt(1), JFloat(1), JStr("X"), JStr("1")}

Under(key, x) == JDict([kk \in {key} |-> x])

ScalarCalls ==
    {Call(Under("a", e), Under("a", a), <<>>, DefaultOptions) :
        e \in PlainScalars, a \in PlainScalars}

\* two dicts over the keys a and b, each key on both sides, on one or on none; a
\* value is a scalar, a dict or a list of objects
Mixed == JList(<<Obj(JInt(1), JStr("a")), Obj(JStr("X"), JStr("a"))>>)

KeyedValues == {JInt(1), Under("x", JInt(1)), Mixed}

KeyedDicts ==
    {JDict(f) : f \in UNION {[K -> KeyedValues] : K \in SUBSET {"a", "b"}}}

KeyOptions ==
    {DefaultOptions,
     [DefaultOptions EXCEPT !.presence_keys = {<<"b">>}],
     [DefaultOptions EXCEPT !.skip_keys = {<<"b">>}]}

DictCalls == {Call(e, a, <<>>, o) : e \in KeyedDicts, a \in KeyedDicts, o \in KeyOptions}

\* a dict two levels below a list element: {meta: [{a: {b: x}}]}
Deep(inner) == Under("meta", JList(<<Under("a", inner)>>))

DeepDicts == {Deep(d) : d \in {EmptyDict, Under("b", JInt(1)), Under("b", JInt(2))}}

DeepCalls == {Call(e, a, <<>>, DefaultOptions) : e \in DeepDicts, a \in DeepDicts}

\* two values of unlike structural kinds: as the two roots, under the key a,
\* and as the first elements of two lists
ClashValues ==
    {None, JInt(1), JStr("X"), Ref(<<"a">>), JList(<<>>), JList(<<JInt(1)>>),
     EmptyDict, Under("x", JInt(1))}

ClashPairs ==
    {pair \in ClashValues \X ClashValues :
        pair[1].k # pair[2].k /\ (IsContainer(pair[1]) \/ IsContainer(pair[2]))}

ClashOptions ==
    {DefaultOptions,
     [DefaultOptions EXCEPT !.list_validation_type = "symmetric"],
     [DefaultOptions EXCEPT !.custom_validator_path = "plugins_b.py",
                            !.custom_validators = [p \in {<<"a">>} |-> "check"]]}

ClashCalls ==
    UNION {{Call(pair[1], pair[2], <<>>, o),
            Call(Under("a", pair[1]), Under("a", pair[2]), <<>>, o),
            Call(JList(<<pair[1], JInt(1)>>), JList(<<pair[2]>>), <<>>, o)} :
           pair \in ClashPairs, o \in ClashOptions}

\* the leaf a.score under one or two rules of the leaf cascade, all of them
\* registered under the leaf key or all under the full path; the custom
\* validator, which is looked up by the exact path, always under the full path
RuleOrder ==
    <<"custom", "wildcard", "numeric", "uuid", "base64", "pan", "aadhaar", "regex",
      "not_equal">>

RuleNames == {RuleOrder[i] : i \in 1..Len(RuleOrder)}

Registered(rules, key) ==
    [DefaultOptions EXCEPT
        !.custom_validator_path = IF "custom" \in rules THEN "plugins_b.py" ELSE "",
        !.custom_validators =
            IF "custom" \in rules THEN [p \in {<<"a", ".", "score">>} |-> "check"] ELSE NoMap,
        !.wildcard_keys = IF "wildcard" \in rules THEN {key} ELSE {},
        !.numeric_validations =
            IF "numeric" \in rules THEN [p \in {key} |-> GeRule(2)] ELSE NoMap,
        !.is_uuid_keys = IF "uuid" \in rules THEN {key} ELSE {},
        !.is_base64_keys = IF "base64" \in rules THEN {key} ELSE {},
        !.is_pan_keys = IF "pan" \in rules THEN {key} ELSE {},
        !.is_aadhar_keys = IF "aadhaar" \in rules THEN {key} ELSE {},
        !.regex_keys = IF "regex" \in rules THEN [p \in {key} |-> "[XY]"] ELSE NoMap,
        !.not_equal_keys = IF "not_equal" \in rules THEN {key} ELSE {}]

StackOptions ==
    {Registered(rules, key) :
        rules \in {S \in SUBSET RuleNames : Cardinality(S) \in 1..MaxRules},
        key \in {<<"score">>, <<"a", ".", "score">>}}

StackActual == {JInt(1), JInt(2), JStr("X"), JText(UuidSample), JStr(PanSample)}

StackCalls ==
    {Call(Score(e), Score(a), <<>>, o) :
        e \in ScoreExpected, a \in StackActual, o \in StackOptions}

\* a placeholder that does not resolve (zz: a missing key; b.x: b is not an
\* object), under the key a beside the key b and as the first of two elements
DanglingRefs == {Ref(<<"zz">>), Ref(<<"b", ".", "x">>)}

DanglingOptions ==
    {DefaultOptions,
     [DefaultOptions EXCEPT !.wildcard_keys = {<<"a">>}],
     [DefaultOptions EXCEPT !.custom_validator_path = "plugins_a.py",
                            !.custom_validators = [p \in {<<"a">>} |-> "check"]],
     [DefaultOptions EXCEPT !.custom_validator_path = "plugins_b.py",
                            !.custom_validators = [p \in {<<"a">>} |-> "check"]]}

DanglingCalls ==
    UNION {{Call(JDict([kk \in {"a", "b"} |-> IF kk = "a" THEN r ELSE JInt(1)]),
                 JDict([kk \in {"a", "b"} |-> IF kk = "a" THEN x ELSE y]), <<>>, o),
            Call(JList(<<r, JInt(1)>>), JList(<<x, y>>), <<>>, o)} :
           r \in DanglingRefs, x \in {JInt(1), JStr("X"), EmptyDict},
           y \in {JInt(1), JInt(2)}, o \in DanglingOptions}

\* lists of objects that carry name and id, id only, or neither
Named(name, id) ==
    JDict([kk \in {"name", "id"} |-> IF kk = "name" THEN JStr(name) ELSE JInt(id)])

KeyItems ==
    {Named("a", 1), Named("b", 2), Obj(JInt(1), JStr("a")), Under("v", JStr("a"))}

KeyLists == {JList(s) : s \in SeqsOver(KeyItems, MaxLen)}

\* the actual side: every list of at most one item, and two lists of two
KeyActuals ==
    {JList(s) : s \in SeqsOver(KeyItems, 1)}
    \cup {JList(<<Named("b", 2), Named("a", 1)>>),
          JList(<<Obj(JInt(1), JStr("a")), Named("a", 1)>>)}

KeyCalls == {Call(e, a, <<>>, DefaultOptions) : e \in KeyLists, a \in KeyActuals}

\* lists that are compared by position in unordered mode: an element is not an
\* object, or the objects carry no candidate key; some elements are themselves
\* lists of objects that carry id
Inner(first, second) ==
    JList(<<Obj(JInt(first), JStr("a")), Obj(JInt(second), JStr("a"))>>)

FallbackItems ==
    {JInt(1), Inner(1, 2), Inner(2, 1), Mixed, Under("v", JStr("a")), Under("v", JStr("b"))}

FallbackLists == {JList(s) : s \in SeqsOver(FallbackItems, MaxLen)}

\* the actual side: every list of at most one item, and three lists of two
FallbackActuals ==
    {JList(s) : s \in SeqsOver(FallbackItems, 1)}
    \cup {JList(<<Inner(2, 1), JInt(1)>>),
          JList(<<Mixed, JInt(1)>>),
          JList(<<Under("v", JStr("b")), Inner(1, 2)>>)}

FallbackCalls ==
    {Call(e, a, <<>>, DefaultOptions) : e \in FallbackLists, a \in FallbackActuals}

\* a key b two dicts below the root, {meta: {a: x}} with x a scalar, a list or
\* {b: ...}, under one option that names a key by its full path, by its leaf
\* key or by a suffix of its path
ScopeValues ==
    {JInt(1), JInt(2), JList(<<JInt(1)>>), JList(<<JInt(2)>>),
     Under("b", JInt(1)), Under("b", JInt(2))}

ScopeTrees == {Under("meta", EmptyDict)} \cup {Under("meta", Under("a", x)) : x \in ScopeValues}

ScopeKeys ==
    {{<<"meta">>}, {<<"a">>}, {<<"b">>}, {<<"meta", ".", "a">>}, {<<"a", ".", "b">>},
     {<<"meta">>, <<"a">>}, {<<"meta">>, <<"a">>, <<"b">>}}

\* a validator registered for meta.a and for meta.a.b
ScopeValidators ==
    [p \in {<<"meta", ".", "a">>, <<"meta", ".", "a", ".", "b">>} |-> "check"]

ScopeOptions ==
    {[DefaultOptions EXCEPT !.skip_keys = keys] : keys \in ScopeKeys}
    \cup {[DefaultOptions EXCEPT !.validate_only_keys = keys] : keys \in ScopeKeys}
    \cup {[DefaultOptions EXCEPT !.presence_keys = keys] : keys \in ScopeKeys}
    \cup {[DefaultOptions EXCEPT !.wildcard_keys = keys] : keys \in ScopeKeys}
    \cup {[DefaultOptions EXCEPT !.presence_keys = keys,
                                 !.custom_validator_path = "plugins_b.py",
                                 !.custom_validators = ScopeValidators] :
             keys \in ScopeKeys \cup {{}}}

ScopeCalls ==
    {Call(e, a, <<>>, o) : e \in ScopeTrees, a \in ScopeTrees, o \in ScopeOptions}

\* a validator of plugins_b.py registered for the key a of a dict, which the
\* dict walker calls on the raw values, or for the first element of a list,
\* which the leaf evaluator calls; the key b and the second element differ
ValidatorNames == {"check", "boom", "none", "two"}

ValidatorOptions(path) ==
    {[DefaultOptions EXCEPT !.custom_validator_path = "plugins_b.py",
                            !.custom_validators = [p \in {path} |-> name]] :
        name \in ValidatorNames}

Both(first, second) == JDict([kk \in {"a", "b"} |-> IF kk = "a" THEN first ELSE second])

ValidatorCalls ==
    {Call(Both(e, JInt(1)), Both(a, JInt(2)), <<>>, o) :
        e \in {JInt(1), JInt(2), Under("x", JInt(1)), JList(<<JInt(1)>>)},
        a \in {JInt(1), JInt(2), Under("x", JInt(1)), JList(<<JInt(1)>>)},
        o \in ValidatorOptions(<<"a">>)}
    \cup {Call(JList(<<e, JInt(1)>>), JList(<<a, JInt(2)>>), <<>>, o) :
        e \in {JInt(1), JInt(2), JStr("X")},
        a \in {JInt(1), JInt(2), JStr("X")},
        o \in ValidatorOptions(<<"[", "0", "]">>)}

\* c is one of the calls the model makes first
\* two lists of objects in which an identity occurs more than once, as the same
\* value or as the equal values 1 and 1.0
DupObjects ==
    {Obj(JInt(1), JStr("a")), Obj(JInt(1), JStr("b")), Obj(JFloat(1), JStr("b")),
     Obj(JInt(2), JStr("a"))}

DupLists == {JList(s) : s \in SeqsOver(DupObjects, MaxLen)}

DupCalls == {Call(e, a, <<>>, DefaultOptions) : e \in DupLists, a \in DupLists}

\* a leaf rule registered for the key a of meta, which holds a scalar, a list or
\* a dict
ContainerRuleOptions ==
    {[DefaultOptions EXCEPT !.not_equal_keys = {<<"a">>}],
     [DefaultOptions EXCEPT !.is_uuid_keys = {<<"a">>}],
     [DefaultOptions EXCEPT !.is_base64_keys = {<<"a">>}],
     [DefaultOptions EXCEPT !.is_pan_keys = {<<"a">>}],
     [DefaultOptions EXCEPT !.is_aadhar_keys = {<<"a">>}],
     [DefaultOptions EXCEPT !.numeric_validations = [p \in {<<"meta", ".", "a">>} |-> GeRule(2)]],
     [DefaultOptions EXCEPT !.regex_keys = [p \in {<<"meta", ".", "a">>} |-> "[XY]"]]}

ContainerRuleCalls ==
    {Call(e, a, <<>>, o) : e \in ScopeTrees, a \in ScopeTrees, o \in ContainerRuleOptions}

IsInput(c) ==
    \/ c \in SelfCalls \/ c \in ListCalls \/ c \in RefCalls \/ c \in RuleCalls
    \/ c \in SessionCalls \/ c \in ScalarCalls \/ c \in DictCalls \/ c \in DeepCalls
    \/ c \in ClashCalls \/ c \in StackCalls \/ c \in DanglingCalls
    \/ c \in KeyCalls \/ c \in FallbackCalls \/ c \in ScopeCalls
    \/ c \in ValidatorCalls \/ c \in DupCalls \/ c \in ContainerRuleCalls

(***************************************************************************)
(* The inputs of json_validate: (data, contract, options). A call is held  *)
(* like one of json_difference, the contract as expected and the data as   *)
(* actual.                                                                 *)
(***************************************************************************)
ContractCall(data, contract, options) == Call(contract, data, <<>>, options)

\* dicts over the keys a and b; a value is a scalar or a dict with the key x, and
\* in the data also a dict without it
ShapeDicts ==
    {JDict(f) : f \in UNION {[K -> {JInt(1), Under("x", JInt(1))}] :
                               K \in SUBSET {"a", "b"}}}

DataDicts ==
    {JDict(f) : f \in UNION {[K -> {JInt(1), Under("x", JInt(1)), EmptyDict}] :
                               K \in SUBSET {"a", "b"}}}

RequiredOptions ==
    {[DefaultOptions EXCEPT !.required_keys = r] :
        r \in {{}, {<<"b">>}, {<<"x">>}, {<<"a", ".", "x">>}}}

RequiredCalls ==
    {ContractCall(d, c, o) : d \in DataDicts, c \in ShapeDicts, o \in RequiredOptions}
    \cup {ContractCall(JList(<<d>>), JList(<<c>>), o) :
            d \in {EmptyDict, Under("x", JInt(1))}, c \in {Under("x", JInt(1))},
            o \in RequiredOptions}

\* the value at a under a declared type
TypeTokens == {"string", "number", "boolean", "array", "object", "any"}

TypedData ==
    {None, JBool(TRUE), JInt(1), JFloat(1), JStr("X"), JList(<<>>), JList(<<JInt(1)>>),
     EmptyDict, Under("x", JInt(1))}

TypedContracts == {JInt(1), JList(<<JInt(1)>>), Under("x", JInt(1))}

TypeCalls ==
    {ContractCall(Under("a", d), Under("a", c),
                  [DefaultOptions EXCEPT !.type_validations = [p \in {<<"a">>} |-> t]]) :
        d \in TypedData, c \in TypedContracts, t \in TypeTokens}

\* the plugin file and the registered validators vary
PluginCalls ==
    {ContractCall(Under("a", JInt(2)), Under("a", JInt(1)), o) :
        o \in {o \in SessionOptions : o.wildcard_keys = {}}}

\* the leaf a.score of the data under one or more rules, each registered under
\* the full path
ContractRules ==
    {"custom", "wildcard", "numeric", "uuid", "base64", "pan", "aadhaar", "regex"}

ContractStackOptions ==
    {Registered(rules, <<"a", ".", "score">>) :
        rules \in {S \in SUBSET ContractRules : Cardinality(S) \in 1..MaxRules}}

ContractStackCalls ==
    {ContractCall(Score(d), Score(JInt(1)), o) :
        d \in StackActual, o \in ContractStackOptions}

ContractInputs == RequiredCalls \cup TypeCalls \cup PluginCalls \cup ContractStackCalls

(***************************************************************************)
(* The process.                                                            *)
(***************************************************************************)
VARIABLES
    validators,   \* json_difference._validators, the process-wide registry
    loads,        \* the calls made to _load_custom_validators, in order
    pc,           \* "ready": a call of json_difference is about to run; "done": it
                  \* has returned; "contract" and "validated": the same of json_validate
    call,         \* the arguments of the current top-level call
    ret,          \* what the call returned (exc # "": it raised)
    log,          \* the session calls made so far, with what each returned
    ncalls,       \* the number of top-level calls started
    contract_validators,  \* json_validate._validators, the registry of json_validate
    threads,      \* the concurrent calls of json_difference, each with its position
                  \* and its locals; none when the process is single-threaded
    seen,         \* the error list of the current call after each write to it
    pending,      \* the work a call followed step by step has left, the next first:
                  \* activations of json_difference and iterations of the loops
    visited       \* the activations and iterations that call has made, in order

vars ==
    <<validators, loads, pc, call, ret, log, ncalls, contract_validators, threads, seen,
      pending, visited>>

NoThreads == <<>>

NoRet == [result |-> FALSE, errors |-> <<>>, exc |-> ""]

Init ==
    /\ validators = UnsetRegistry
    /\ loads = <<>>
    /\ \/ pc = "ready" /\ IsInput(call)
       \/ pc = "contract" /\ call \in ContractInputs
    /\ ret = NoRet
    /\ log = <<>>
    /\ ncalls = 1
    /\ contract_validators = UnsetRegistry
    /\ threads = NoThreads
    /\ seen = <<>>
    /\ pending = <<>>
    /\ visited = <<>>

\* the state in which a top-level call starts: errors = [] (line 62)
Entry(registry, loaded) ==
    [errors |-> <<>>, exc |-> "", validators |-> registry, loads |-> loaded,
     result |-> FALSE, history |-> <<>>]

\* one top-level call of json_difference, from its entry to its return
Invoke ==
    /\ pc = "ready"
    /\ LET st == json_difference(call.expected, call.actual, call.path,
                                 Entry(validators, loads), call.options, call.actual)
           returned == [result |-> st.exc = "" /\ st.result, errors |-> st.errors,
                        exc |-> st.exc]
       IN /\ validators' = st.validators
          /\ loads' = st.loads
          /\ ret' = returned
          /\ seen' = st.history
          /\ log' = IF call \in SessionCalls
                    THEN Append(log, [call |-> call, ret |-> returned,
                                      before |-> loads, after |-> st.loads])
                    ELSE log
    /\ pc' = "done"
    /\ UNCHANGED <<call, ncalls, contract_validators, threads, pending, visited>>

\* one call of json_validate, from its entry to its return
Validate ==
    /\ pc = "contract"
    /\ LET st == json_validate(call.actual, call.expected,
                               Entry(contract_validators, loads), call.options)
       IN /\ contract_validators' = st.validators
          /\ loads' = st.loads
          /\ ret' = [result |-> st.result, errors |-> st.errors, exc |-> st.exc]
          /\ seen' = st.history
    /\ pc' = "validated"
    /\ UNCHANGED <<validators, call, log, ncalls, threads, pending, visited>>

\* the process goes on to its next call
NextCall(c) ==
    /\ pc = "done"
    /\ ncalls < MaxCalls
    /\ call' = c
    /\ ret' = NoRet
    /\ seen' = <<>>
    /\ pc' = "ready"
    /\ ncalls' = ncalls + 1
    /\ UNCHANGED <<validators, loads, log, contract_validators, threads, pending, visited>>

Next == Invoke \/ (\E c \in SessionCalls : NextCall(c)) \/ Validate

Spec == Init /\ [][Next]_vars

(***************************************************************************)
(* Two threads call json_difference at the same time with the same         *)
(* arguments, two dicts and a custom_validator_path. The engine holds no   *)
(* lock: the hasattr test of line 68, the call of the loader and the       *)
(* assignment of line 70 (or the handler of lines 71-73), and each         *)
(* iteration of the loop of compare_dicts, which reads the registry in     *)
(* is_custom_validator (line 125), are steps of their own, interleaved in  *)
(* any order. A thread's errors list and loaded mapping are its locals;    *)
(* the registry and the file system are shared. The process may have made  *)
(* a call with another custom_validator_path before.                       *)
(***************************************************************************)
Threads == {1, 2}

RaceOptions ==
    {[DefaultOptions EXCEPT !.custom_validator_path = f, !.custom_validators = cv] :
        f \in PluginFiles,
        cv \in {NoMap, [p \in {<<"a">>} |-> "check"],
                [p \in {<<"a">>, <<"b">>} |-> "check"]}}

RaceCalls ==
    {Call(JDict([kk \in {"a", "b"} |-> JInt(1)]),
          JDict([kk \in {"a", "b"} |-> IF kk = "a" THEN JInt(2) ELSE JInt(1)]),
          <<>>, o) : o \in RaceOptions}

\* the state of the process after an earlier call with the path file_path
\* ("": after none)
After(file_path) ==
    LoadStep(Entry(UnsetRegistry, <<>>),
             [DefaultOptions EXCEPT !.custom_validator_path = file_path])

Started(c) ==
    [pc |-> "check", loaded |-> _load_custom_validators(""), nloads |-> 0,
     st |-> Entry(UnsetRegistry, <<>>),
     keys |-> SortedKeys(DOMAIN c.expected.v \cup DOMAIN c.actual.v),
     resolved |-> <<>>]

RaceInit ==
    /\ call \in RaceCalls
    /\ \E earlier \in (PluginFiles \cup {""}) \ {call.options.custom_validator_path} :
          /\ validators = After(earlier).validators
          /\ loads = After(earlier).loads
    /\ threads = [t \in Threads |-> Started(call)]
    /\ pc = "threads"
    /\ ret = NoRet
    /\ log = <<>>
    /\ ncalls = 1
    /\ contract_validators = UnsetRegistry
    /\ seen = <<>>
    /\ pending = <<>>
    /\ visited = <<>>

\* line 68: options.get("custom_validator_path") and not hasattr(...)
RaceCheck(t) ==
    /\ threads[t].pc = "check"
    /\ threads' = [threads EXCEPT ![t].pc =
                      IF call.options.custom_validator_path # "" /\ ~validators.has
                      THEN "load" ELSE "walk"]
    /\ UNCHANGED <<validators, loads, pc, call, ret, log, ncalls, contract_validators, seen,
                   pending, visited>>

\* line 70, right-hand side: the loader runs and returns or raises
RaceLoad(t) ==
    /\ threads[t].pc = "load"
    /\ loads' = Append(loads, call.options.custom_validator_path)
    /\ threads' = [threads EXCEPT
                      ![t].loaded = _load_custom_validators(call.options.custom_validator_path),
                      ![t].nloads = @ + 1,
                      ![t].pc = "store"]
    /\ UNCHANGED <<validators, pc, call, ret, log, ncalls, contract_validators, seen,
                   pending, visited>>

\* line 70, the assignment; lines 71-73 when the loader raised
RaceStore(t) ==
    /\ threads[t].pc = "store"
    /\ IF threads[t].loaded.ok
       THEN /\ validators' = [has |-> TRUE, map |-> threads[t].loaded.validators]
            /\ threads' = [threads EXCEPT ![t].pc = "walk"]
       ELSE /\ validators' = [has |-> TRUE, map |-> NoValidators]
            /\ threads' = [threads EXCEPT ![t].st = errors_append(@, LoadError),
                                          ![t].pc = "walk"]
    /\ UNCHANGED <<loads, pc, call, ret, log, ncalls, contract_validators, seen,
                   pending, visited>>

\* one iteration of the loop of compare_dicts (lines 153-173), on the registry
\* as it is now; after the last one the call returns (line 209)
RaceWalk(t) ==
    /\ threads[t].pc = "walk"
    /\ LET me == threads[t]
           done == DictKey(Head(me.keys), call.expected, call.actual, call.path,
                           [me.st EXCEPT !.validators = validators, !.loads = loads],
                           call.options, call.actual)
           last == Len(me.keys) = 1 \/ done.exc # ""
       IN /\ threads' = [threads EXCEPT
                            ![t].st = IF last THEN Return(done, done.errors = <<>>) ELSE done,
                            ![t].keys = Tail(@),
                            ![t].resolved = Append(@, validators),
                            ![t].pc = IF last THEN "done" ELSE "walk"]
          /\ validators' = done.validators
          /\ loads' = done.loads
    /\ UNCHANGED <<pc, call, ret, log, ncalls, contract_validators, seen, pending, visited>>

RaceNext ==
    \E t \in Threads : RaceCheck(t) \/ RaceLoad(t) \/ RaceStore(t) \/ RaceWalk(t)

RaceSpec == RaceInit /\ [][RaceNext]_vars

(***************************************************************************)
(* One call of json_difference followed step by step. pending holds the    *)
(* work the call has left, the next first: an activation of                *)
(* json_difference on a pair of values ("value"), an iteration of the loop *)
(* of compare_dicts on a key ("key"), or an iteration of the loop over the *)
(* identities of compare_lists_unordered ("item"). depth is the number of  *)
(* frames on the interpreter's stack when the task runs: the interpreter   *)
(* raises RecursionError when a call would need more than RecursionLimit.  *)
(* Every recursive call goes through the entry of json_difference, lines   *)
(* 61-73, so every activation starts with LoadStep.                        *)
(***************************************************************************)
Task(kind, expected, actual, path, key, depth) ==
    [kind |-> kind, expected |-> expected, actual |-> actual, path |-> path,
     key |-> key, depth |-> depth]

RECURSIVE Nest(_, _)
Nest(n, leaf) == IF n = 0 THEN leaf ELSE Under("a", Nest(n - 1, leaf))

NestCalls ==
    {Call(Nest(n, JInt(1)), Nest(n, JInt(2)), <<>>, DefaultOptions) : n \in 0..MaxDepth}

WalkCalls ==
    NestCalls \cup DeepCalls \cup RefCalls \cup ValidatorCalls \cup ClashCalls
    \cup KeyCalls \cup FallbackCalls

\* the walker's state, made of the variables that hold it between two steps
WalkState ==
    [errors |-> ret.errors, exc |-> ret.exc, validators |-> validators, loads |-> loads,
     result |-> ret.result, history |-> seen]

\* for i in range(min_len): json_difference(expected_list[i], actual_list[i], ...)
PairTasks(expected_list, actual_list, current_path, depth) ==
    [i \in 1..Min(Len(expected_list), Len(actual_list)) |->
        Task("value", expected_list[i], actual_list[i], IndexPath(current_path, i - 1),
             None, depth)]

\* compare_lists_symmetric, its frame at depth: the length test, then the pairs
SymmetricTasks(expected_list, actual_list, current_path, st, depth) ==
    [st |-> IF Len(expected_list) # Len(actual_list)
            THEN _add_error(st, get_leaf_key(current_path), current_path,
                            "List length mismatch")
            ELSE st,
     tasks |-> PairTasks(expected_list, actual_list, current_path, depth + 1)]

\* compare_lists_unordered, its frame at depth
UnorderedTasks(expected_list, actual_list, current_path, st, depth) ==
    LET both == expected_list \o actual_list
        match_key == MatchKey(expected_list, actual_list)
    IN IF \E i \in 1..Len(both) : ~IsDict(both[i])
       THEN IF depth + 1 > RecursionLimit
            THEN [st |-> Raise(st, "RecursionError"), tasks |-> <<>>]
            ELSE SymmetricTasks(expected_list, actual_list, current_path, st, depth + 1)
       ELSE IF match_key # ""
       THEN LET expected_map == ItemMap(expected_list, match_key, <<>>)
                actual_map == ItemMap(actual_list, match_key, <<>>)
                all_keys == KeyUnion(KeyUnion(<<>>, expected_map.map), actual_map.map)
                keys == SortedItems(all_keys)
                Side(map, item_key) == IF MapHas(map, item_key) THEN MapGet(map, item_key)
                                       ELSE None
            IN IF ~expected_map.ok \/ ~actual_map.ok \/ ~Comparable(all_keys)
               THEN [st |-> Raise(st, "TypeError"), tasks |-> <<>>]
               ELSE [st |-> st,
                     tasks |-> [i \in 1..Len(keys) |->
                                  Task("item", Side(expected_map.map, keys[i]),
                                       Side(actual_map.map, keys[i]),
                                       ItemPath(current_path, match_key, keys[i]),
                                       keys[i], depth)]]
       ELSE SymmetricTasks(expected_list, actual_list, current_path, st, depth)

\* the dispatch of lines 206-247 for one activation
Activation(task, st) ==
    LET expected == task.expected
        actual == task.actual
    IN IF task.depth > RecursionLimit
       THEN [st |-> Raise(st, "RecursionError"), tasks |-> <<>>]
       ELSE IF IsContainer(expected) /\ expected.k = actual.k
               /\ task.depth + 1 > RecursionLimit
       THEN [st |-> Raise(st, "RecursionError"), tasks |-> <<>>]
       ELSE IF IsDict(expected) /\ IsDict(actual)
       THEN LET keys == SortedKeys(DOMAIN expected.v \cup DOMAIN actual.v)
            IN [st |-> st,
                tasks |-> [i \in 1..Len(keys) |->
                             Task("key", expected, actual, task.path, JStr(keys[i]),
                                  task.depth + 1)]]
       ELSE IF IsList(expected) /\ IsList(actual)
       THEN IF call.options.list_validation_type = "symmetric"
            THEN SymmetricTasks(expected.v, actual.v, task.path, st, task.depth + 1)
            ELSE UnorderedTasks(expected.v, actual.v, task.path, st, task.depth + 1)
       ELSE IF ~(IsContainer(expected) \/ IsContainer(actual))
       THEN [st |-> Leaf(expected, actual, task.path, st, call.options, call.actual),
             tasks |-> <<>>]
       ELSE [st |-> st, tasks |-> <<>>]

\* one iteration of the loop of compare_dicts, lines 154-173
KeyIteration(task, st) ==
    LET key == task.key.v[1]
        key_path == KeyPath(task.path, key)
        field_name == get_leaf_key(key_path)
        options == call.options
        should_validate ==
            /\ ~is_in_options(key_path, options.skip_keys)
            /\ \/ options.validate_only_keys = {}
               \/ is_in_options(key_path, options.validate_only_keys)
        custom_validator == is_custom_validator(key_path, st.validators, options)
        Only(done) == [st |-> done, tasks |-> <<>>]
    IN IF ~should_validate THEN Only(st)
       ELSE IF key \notin DOMAIN task.actual.v
       THEN IF is_in_options(key_path, options.presence_keys)
            THEN Only(_add_error(st, field_name, key_path,
                                 "Required key missing in actual"))
            ELSE Only(_add_error(st, field_name, key_path, "Missing key in actual"))
       ELSE IF key \notin DOMAIN task.expected.v
       THEN Only(_add_error(st, field_name, key_path, "Extra key in actual"))
       ELSE IF is_in_options(key_path, options.presence_keys) THEN Only(st)
       ELSE IF custom_validator # ""
       THEN LET outcome == CallValidator(custom_validator, task.expected.v[key],
                                         task.actual.v[key])
            IN CASE outcome = "pass" -> Only(st)
                 [] outcome = "fail" ->
                      Only(_add_error(st, field_name, key_path, "Custom validation failed"))
                 [] OTHER ->
                      Only(_add_error(st, field_name, key_path,
                                      "Custom validator raised an error"))
       ELSE [st |-> st,
             tasks |-> <<Task("value", task.expected.v[key], task.actual.v[key], key_path,
                              None, task.depth + 1)>>]

\* one iteration of the loop over the identities, lines 195-200; None stands
\* for the item a list does not hold
ItemIteration(task, st) ==
    LET item_field_name == get_leaf_key(task.path)
    IN IF task.expected # None /\ task.actual # None
       THEN [st |-> st,
             tasks |-> <<Task("value", task.expected, task.actual, task.path, None,
                              task.depth + 1)>>]
       ELSE IF task.expected # None
       THEN [st |-> _add_error(st, item_field_name, task.path,
                               "Missing item in actual list"),
             tasks |-> <<>>]
       ELSE [st |-> _add_error(st, item_field_name, task.path, "Extra item in actual list"),
             tasks |-> <<>>]

\* what a visit of the task is recorded as
Place(task) ==
    [kind |-> task.kind,
     path |-> IF task.kind = "key" THEN KeyPath(task.path, task.key.v[1]) ELSE task.path]

\* the step is made: an exception unwinds the whole call
Advance(step) ==
    /\ validators' = step.st.validators
    /\ loads' = step.st.loads
    /\ ret' = [result |-> step.st.result, errors |-> step.st.errors, exc |-> step.st.exc]
    /\ seen' = step.st.history
    /\ pending' = IF step.st.exc # "" THEN <<>> ELSE step.tasks \o Tail(pending)
    /\ visited' = Append(visited, Place(Head(pending)))
    /\ UNCHANGED <<pc, call, log, ncalls, contract_validators, threads>>

WalkInit ==
    /\ call \in WalkCalls
    /\ validators = UnsetRegistry
    /\ loads = <<>>
    /\ pc = "walking"
    /\ ret = NoRet
    /\ log = <<>>
    /\ ncalls = 1
    /\ contract_validators = UnsetRegistry
    /\ threads = NoThreads
    /\ seen = <<>>
    /\ pending = <<Task("value", call.expected, call.actual, call.path, None, 1)>>
    /\ visited = <<>>

VisitStep ==
    /\ pc = "walking" /\ pending # <<>> /\ Head(pending).kind = "value"
    /\ Advance(Activation(Head(pending), LoadStep(WalkState, call.options)))

KeyStep ==
    /\ pc = "walking" /\ pending # <<>> /\ Head(pending).kind = "key"
    /\ Advance(KeyIteration(Head(pending), WalkState))

ItemStep ==
    /\ pc = "walking" /\ pending # <<>> /\ Head(pending).kind = "item"
    /\ Advance(ItemIteration(Head(pending), WalkState))

\* return {"result": not errors, "errors": errors}; a leaf that is the whole
\* call returns what the leaf branch returned
WalkReturn ==
    /\ pc = "walking" /\ pending = <<>>
    /\ pc' = "done"
    /\ ret' = [ret EXCEPT !.result =
                 /\ ret.exc = ""
                 /\ IF IsContainer(call.expected) \/ IsContainer(call.actual)
                    THEN ret.errors = <<>> ELSE ret.result]
    /\ UNCHANGED <<validators, loads, call, log, ncalls, contract_validators, threads,
                   seen, pending, visited>>

WalkNext == VisitStep \/ KeyStep \/ ItemStep \/ WalkReturn

\* the call makes the step that is next: each of VisitStep, KeyStep and ItemStep
\* is such a step, and records it
Tick ==
    /\ pc = "walking" /\ pending # <<>>
    /\ visited' = Append(visited, Place(Head(pending)))

\* the interpreter runs the one thread of the call until the call ends: while
\* work is pending the next step is made, and then the call returns
WalkSpec ==
    WalkInit /\ [][WalkNext]_vars /\ WF_visited(Tick) /\ WF_vars(WalkReturn)

(***************************************************************************)
(* What a call with other arguments returns in the current process state.  *)
(***************************************************************************)
Outcome(c, registry) ==
    LET st == json_difference(c.expected, c.actual, c.path, Entry(registry, <<>>),
                              c.options, c.actual)
    IN [result |-> st.exc = "" /\ st.result, errors |-> st.errors, exc |-> st.exc]

EmptyRegistry == [has |-> TRUE, map |-> NoValidators]

Mismatch(path) == ErrorRecord(get_leaf_key(path), path, "Value mismatch")

Returned == pc = "done"

(***************************************************************************)
(* C1. Idempotence: a tree compared with itself under default options      *)
(* gives an empty error list.                                              *)
(***************************************************************************)
C1_Idempotence ==
    (Returned /\ call.expected = call.actual /\ call.options = DefaultOptions)
        => (ret.exc = "" /\ ret.errors = <<>>)

(***************************************************************************)
(* C2. Determinism across invocations: two calls of the process with the   *)
(* same expected tree, actual tree and options return the same error list. *)
(***************************************************************************)
C2_Deterministic ==
    \A i, j \in 1..Len(log) :
        log[i].call = log[j].call => log[i].ret.errors = log[j].ret.errors

(***************************************************************************)
(* C3. A top-level call returns result = true exactly when the error list  *)
(* it returns is empty.                                                    *)
(***************************************************************************)
C3_ResultIffNoErrors ==
    (Returned /\ ret.exc = "") => (ret.result <=> ret.errors = <<>>)

(***************************************************************************)
(* C4. The walk always completes: no call raises because of the data.      *)
(***************************************************************************)
C4_WalkCompletes == Returned => ret.exc = ""

(***************************************************************************)
(* C5. Reference resolution example: expected {id: "{ACTUAL_VALUE:meta.id}"}*)
(* against {id: "X", meta: {id: "X"}} gives zero errors, and against       *)
(* {id: "X", meta: {id: "Y"}} exactly one error, a mismatch at id.         *)
(***************************************************************************)
RefExpected == JDict([kk \in {"id"} |-> Ref(<<"meta", ".", "id">>)])

RefActual(m) ==
    JDict([kk \in {"id", "meta"} |->
             IF kk = "id" THEN JStr("X") ELSE JDict([k2 \in {"id"} |-> JStr(m)])])

RefExample(m) == Call(RefExpected, RefActual(m), <<>>, DefaultOptions)

ExtraMeta == ErrorRecord(<<"meta">>, <<"meta">>, "Extra key in actual")

C5_ReferenceExample ==
    /\ (Returned /\ call = RefExample("X")) => ret.errors = <<>>
    /\ (Returned /\ call = RefExample("Y")) => ret.errors = <<Mismatch(<<"id">>)>>

\* C5, amended: the key meta, which expected does not hold, is reported as an
\* extra key in both cases; the leaf id gives no error when meta.id is "X" and
\* one mismatch when it is "Y".
C5_ReferenceExampleWithExtraKey ==
    /\ (Returned /\ call = RefExample("X")) => (ret.exc = "" /\ ret.errors = <<ExtraMeta>>)
    /\ (Returned /\ call = RefExample("Y")) =>
          (ret.exc = "" /\ ret.errors = <<Mismatch(<<"id">>), ExtraMeta>>)

C5_Witness == Returned /\ call = RefExample("Y") /\ Len(ret.errors) = 2

(***************************************************************************)
(* C6. Unordered mode, two lists of objects that all carry the chosen      *)
(* identity key, with pairwise distinct identity values of one scalar      *)
(* type: the error list is the same for every permutation of the expected  *)
(* list and of the actual list, and a list compared with a permutation of  *)
(* itself gives zero errors.                                               *)
(***************************************************************************)
Perms(s) ==
    {[i \in 1..Len(s) |-> s[f[i]]] :
        f \in {g \in [1..Len(s) -> 1..Len(s)] :
                 \A a, b \in 1..Len(s) : a # b => g[a] # g[b]}}

JsonType(x) == IF x.k \in {"int", "float"} THEN "number" ELSE x.k

DistinctIds(list, key) ==
    \A i, j \in 1..Len(list) : i # j => ~PyEq(list[i].v[key], list[j].v[key])

IdentityKeyed(expected_list, actual_list) ==
    LET both == expected_list \o actual_list
        key == MatchKey(expected_list, actual_list)
    IN /\ \A i \in 1..Len(both) : IsDict(both[i])
       /\ key # ""
       /\ \A i \in 1..Len(both) : ~IsContainer(both[i].v[key])
       /\ \A i, j \in 1..Len(both) : JsonType(both[i].v[key]) = JsonType(both[j].v[key])
       /\ DistinctIds(expected_list, key)
       /\ DistinctIds(actual_list, key)

UnorderedLists ==
    /\ Returned
    /\ IsList(call.expected) /\ IsList(call.actual)
    /\ call.options.list_validation_type = "unordered"
    /\ IdentityKeyed(call.expected.v, call.actual.v)

PermutationInvariant ==
    \A pe \in Perms(call.expected.v), pa \in Perms(call.actual.v) :
        Outcome([call EXCEPT !.expected = JList(pe), !.actual = JList(pa)], validators) = ret

SwapExample ==
    Call(JList(<<Obj(JInt(1), JStr("a")), Obj(JInt(2), JStr("b"))>>),
         JList(<<Obj(JInt(2), JStr("b")), Obj(JInt(1), JStr("a"))>>),
         <<>>, [DefaultOptions EXCEPT !.list_validation_type = "symmetric"])

C7_SymmetricTwoMismatches ==
    (Returned /\ call = SwapExample) =>
        (Len(ret.errors) = 2 /\ \A i \in 1..2 : ret.errors[i].message = "Value mismatch")

\* C7, amended: both keys differ at both positions, which gives four mismatch
\* errors, at [0].id, [0].v, [1].id and [1].v in this order.
C7_SymmetricFourMismatches ==
    (Returned /\ call = SwapExample) =>
        /\ ret.exc = ""
        /\ ret.errors = <<Mismatch(<<"[", "0", "]", ".", "id">>),
                          Mismatch(<<"[", "0", "]", ".", "v">>),
                          Mismatch(<<"[", "1", "]", ".", "id">>),
                          Mismatch(<<"[", "1", "]", ".", "v">>)>>

C7_Witness == Returned /\ call = SwapExample /\ Len(ret.errors) = 4

(***************************************************************************)
(* C8. The registry is keyed by plugin source: every call that names a     *)
(* custom_validator_path resolves its validator names against the mapping  *)
(* loaded from that path, and each path is loaded exactly once.            *)
(***************************************************************************)
LoadedFrom(file_path) ==
    [has |-> TRUE, map |-> _load_custom_validators(file_path).validators]

Times(file_path) == Cardinality({i \in 1..Len(loads) : loads[i] = file_path})

C8_RegistryKeyedBySource ==
    (Returned /\ call.options.custom_validator_path # "") =>
        /\ validators = LoadedFrom(call.options.custom_validator_path)
        /\ Times(call.options.custom_validator_path) = 1

(***************************************************************************)
(* C9. A load that raises: the call appends exactly one error entry, the   *)
(* load error with field and jsonpath null, stores an empty mapping, and   *)
(* still walks the whole tree; the loader is called once in that call, and *)
(* no later call calls the loader again or repeats the load error.         *)
(***************************************************************************)
LoadRaised(x) ==
    /\ Len(x.after) > Len(x.before)
    /\ ~_load_custom_validators(x.call.options.custom_validator_path).ok

HasLoadError(errors) == \E k \in 1..Len(errors) : errors[k] = LoadError

ScorePath == <<"a", ".", "score">>

ScoreCall ==
    /\ Returned
    /\ call.path = <<>>
    /\ \E e \in ScoreExpected : call.expected = Score(e)
    /\ \E a \in ScoreActual : call.actual = Score(a)

Recorded(passed, message) ==
    IF passed THEN <<>> ELSE <<ErrorRecord(<<"score">>, ScorePath, message)>>

C10_MapRulesMatchedByLeafKey ==
    ScoreCall =>
        LET leaf == call.actual.v["a"].v["score"]
            numeric == call.options.numeric_validations
            regex == call.options.regex_keys
        IN /\ is_in_options(ScorePath, DOMAIN numeric) =>
                /\ ret.exc = ""
                /\ \E key \in DOMAIN numeric :
                      ret.errors = Recorded(_is_numeric_valid(leaf, numeric[key]).result,
                                            "Numeric validation failed")
           /\ is_in_options(ScorePath, DOMAIN regex) =>
                /\ ret.exc = ""
                /\ \E key \in DOMAIN regex :
                      ret.errors = Recorded(IsStr(leaf) /\ RegexFullMatch(regex[key], leaf.v),
                                            "Regex mismatch")

(***************************************************************************)
(* C11. A scalar pair governed by no rule gives a 'Value mismatch' error   *)
(* exactly when the two are different JSON values: numbers compare by      *)
(* value (1 equals 1.0) and values of different JSON kinds are never       *)
(* equal (true against 1 and false against 0 are mismatches).              *)
(***************************************************************************)
JsonEqual(a, b) == JsonType(a) = JsonType(b) /\ a.v = b.v

C11_MismatchIffDifferentJsonValues ==
    (Returned /\ call \in ScalarCalls) =>
        /\ ret.exc = ""
        /\ ret.errors = IF JsonEqual(call.expected.v["a"], call.actual.v["a"])
                        THEN <<>> ELSE <<Mismatch(<<"a">>)>>

(***************************************************************************)
(* C12. A dict key that is not skipped and is present on exactly one side  *)
(* gives exactly one error at its key path: 'Missing key' when it is       *)
(* absent in actual ('Required key missing' when presence_keys matches     *)
(* it), 'Extra key' when it is absent in expected; nothing below the key   *)
(* is visited.                                                             *)
(***************************************************************************)
At(errors, path) == {i \in 1..Len(errors) : errors[i].jsonpath = path}

Below(errors, path) ==
    {i \in 1..Len(errors) :
        /\ Len(errors[i].jsonpath) > Len(path)
        /\ SubSeq(errors[i].jsonpath, 1, Len(path)) = path}

OneSided(key) ==
    /\ (key \in DOMAIN call.expected.v) # (key \in DOMAIN call.actual.v)
    /\ ~is_in_options(<<key>>, call.options.skip_keys)

OneSidedMessage(key) ==
    IF key \in DOMAIN call.actual.v THEN "Extra key in actual"
    ELSE IF is_in_options(<<key>>, call.options.presence_keys)
    THEN "Required key missing in actual"
    ELSE "Missing key in actual"

C12_OneErrorPerOneSidedKey ==
    (Returned /\ call \in DictCalls) =>
        \A key \in {"a", "b"} :
            OneSided(key) =>
                /\ Cardinality(At(ret.errors, <<key>>)) = 1
                /\ \A i \in At(ret.errors, <<key>>) :
                      ret.errors[i] = ErrorRecord(<<key>>, <<key>>, OneSidedMessage(key))
                /\ Below(ret.errors, <<key>>) = {}

(***************************************************************************)
(* C13. The field of every error record whose path is not null is the      *)
(* final name component of the path (empty when the path ends with a       *)
(* bracket segment); an error at the key b of a dict two levels below a    *)
(* list element, at meta[0].a.b, has the field b.                          *)
(***************************************************************************)
LastName(path) ==
    IF path = <<>> THEN <<>>
    ELSE IF path[Len(path)] = "]" THEN <<>>
    ELSE <<path[Len(path)]>>

DeepPath == <<"meta", "[", "0", "]", ".", "a", ".", "b">>

DeepExample ==
    Call(Deep(Under("b", JInt(1))), Deep(Under("b", JInt(2))), <<>>, DefaultOptions)

C13_FieldIsLeafKey ==
    Returned =>
        /\ \A i \in 1..Len(ret.errors) :
              ret.errors[i].jsonpath # NoneStr =>
                  ret.errors[i].field = LastName(ret.errors[i].jsonpath)
        /\ call = DeepExample =>
              ret.errors = <<ErrorRecord(<<"b">>, DeepPath, "Value mismatch")>>

(***************************************************************************)
(* C14. json_validate, a contract key absent from the data dict: no error  *)
(* when required_keys does not match its key path, exactly one 'Required   *)
(* key missing' error when it does; the contract below the key is not      *)
(* descended in either case.                                               *)
(***************************************************************************)
Validated == pc = "validated"

\* the key paths of the contract keys absent from the data: the keys of the two
\* root dicts and those of the dicts at the key a when both sides hold a dict
\* there; for two lists, the keys of the template against the first element
AbsentKeys(data, contract) ==
    IF IsDict(data) /\ IsDict(contract)
    THEN {<<k>> : k \in DOMAIN contract.v \ DOMAIN data.v}
         \cup IF "a" \in DOMAIN contract.v \cap DOMAIN data.v
                 /\ IsDict(contract.v["a"]) /\ IsDict(data.v["a"])
              THEN {<<"a", ".", k>> :
                      k \in DOMAIN contract.v["a"].v \ DOMAIN data.v["a"].v}
              ELSE {}
    ELSE IF IsList(data) /\ IsList(contract) /\ data.v # <<>> /\ contract.v # <<>>
            /\ IsDict(data.v[1]) /\ IsDict(contract.v[1])
    THEN {<<"[", "0", "]", ".", k>> : k \in DOMAIN contract.v[1].v \ DOMAIN data.v[1].v}
    ELSE {}

RequiredMissing(key_path) ==
    ErrorRecord(<<key_path[Len(key_path)]>>, key_path, "Required key missing")

C14_RequiredKeyMissing ==
    Validated =>
        \A key_path \in AbsentKeys(call.actual, call.expected) :
            /\ Below(ret.errors, key_path) = {}
            /\ IF is_in_options(key_path, call.options.required_keys)
               THEN /\ Cardinality(At(ret.errors, key_path)) = 1
                    /\ \A i \in At(ret.errors, key_path) :
                          ret.errors[i] = RequiredMissing(key_path)
               ELSE At(ret.errors, key_path) = {}

C14_Witness ==
    /\ Validated
    /\ call.options.required_keys = {<<"x">>}
    /\ IsDict(call.expected)
    /\ <<"b">> \in AbsentKeys(call.actual, call.expected)
    /\ IsDict(call.expected.v["b"])
    /\ ret.errors = <<RequiredMissing(<<"a", ".", "x">>)>>

(***************************************************************************)
(* C15: for every path with a token in type_validations whose value is     *)
(* present in the data, json_validate records a 'Type mismatch' error if   *)
(* and only if the JSON kind of the value differs from the token, the      *)
(* token 'any' never mismatching: a Boolean under 'number' is a mismatch,  *)
(* and so is an object under 'array' whatever the contract holds there.    *)
(***************************************************************************)
JsonKind(x) ==
    CASE x.k = "null" -> "null"
      [] x.k = "bool" -> "boolean"
      [] x.k \in {"int", "float"} -> "number"
      [] x.k = "str" -> "string"
      [] x.k = "list" -> "array"
      [] OTHER -> "object"

TypeMismatchAt(path) ==
    {i \in At(ret.errors, path) : ret.errors[i].message = "Type mismatch"}

C15_TypeMismatchIffKindDiffers ==
    (Validated /\ <<"a">> \in DOMAIN call.options.type_validations) =>
        LET token == call.options.type_validations[<<"a">>]
            kind == JsonKind(call.actual.v["a"])
        IN (TypeMismatchAt(<<"a">>) # {}) <=> (token # "any" /\ kind # token)

(***************************************************************************)
(* C16: two concurrent first calls with the same new custom_validator_path,*)
(* under every interleaving of their steps: each call runs the loader at   *)
(* most once (at most twice in total), the registry after both have        *)
(* returned is the mapping the loader gives for that path, and every read  *)
(* of the registry by either call finds that mapping, never an absent or   *)
(* a partial one.                                                          *)
(***************************************************************************)
BothReturned == \A t \in Threads : threads[t].pc = "done"

C16_RaceOnFirstLoad ==
    (pc = "threads") =>
        LET file_path == call.options.custom_validator_path
        IN /\ \A t \in Threads : threads[t].nloads <= 1
           /\ Times(file_path) <= 2
           /\ BothReturned => validators = LoadedFrom(file_path)
           /\ \A t \in Threads : \A i \in 1..Len(threads[t].resolved) :
                 threads[t].resolved[i] = LoadedFrom(file_path)

(***************************************************************************)
(* C17: during a call of json_difference the expected tree, the actual     *)
(* tree and the options are not modified, and the error list only grows    *)
(* by appending: every list it held during the call is a prefix of the     *)
(* one the call ends with, each write adding one record at the end.        *)
(***************************************************************************)
IsPrefix(s, t) == Len(s) <= Len(t) /\ SubSeq(t, 1, Len(s)) = s

C17_FrameAndAppendOnly ==
    [][(pc = "ready" /\ pc' = "done") =>
          /\ call' = call
          /\ \A i \in 1..Len(seen') :
                /\ IsPrefix(seen'[i], ret'.errors)
                /\ Len(seen'[i]) = i
          /\ Len(ret'.errors) = Len(seen')]_vars

C17_Witness ==
    /\ Returned
    /\ Len(seen) = 2
    /\ seen[1] # <<>>
    /\ seen[2] = ret.errors

(***************************************************************************)
(* C18: where the two values at a location are of clashing structural      *)
(* kinds (object and array, object and scalar, array and scalar, either    *)
(* way round) and no custom validator is registered for the path of the    *)
(* location, json_difference records no error for the location, so that    *)
(* the result can be true for two trees of different structure. The        *)
(* locations looked at are the roots, the key a of two dicts and the first *)
(* elements of two lists.                                                  *)
(***************************************************************************)
Clash(expected, actual) ==
    /\ IsContainer(expected) \/ IsContainer(actual)
    /\ ~(IsDict(expected) /\ IsDict(actual))
    /\ ~(IsList(expected) /\ IsList(actual))

Locations ==
    {[path |-> call.path, expected |-> call.expected, actual |-> call.actual]}
    \cup (IF /\ IsDict(call.expected) /\ IsDict(call.actual)
             /\ "a" \in DOMAIN call.expected.v \cap DOMAIN call.actual.v
          THEN {[path |-> KeyPath(call.path, "a"), expected |-> call.expected.v["a"],
                 actual |-> call.actual.v["a"]]}
          ELSE {})
    \cup (IF /\ IsList(call.expected) /\ IsList(call.actual)
             /\ call.expected.v # <<>> /\ call.actual.v # <<>>
          THEN {[path |-> IndexPath(call.path, 0), expected |-> call.expected.v[1],
                 actual |-> call.actual.v[1]]}
          ELSE {})

\* the errors recorded at the path or below it
ErrorsFor(path) ==
    {i \in 1..Len(ret.errors) :
        /\ ret.errors[i].jsonpath # NoneStr
        /\ Len(ret.errors[i].jsonpath) >= Len(path)
        /\ SubSeq(ret.errors[i].jsonpath, 1, Len(path)) = path}

C18_ClashRecordsNothing ==
    Returned =>
        \A loc \in Locations :
            (Clash(loc.expected, loc.actual)
             /\ loc.path \notin DOMAIN call.options.custom_validators)
                => ErrorsFor(loc.path) = {}

C18_Witness ==
    /\ Returned
    /\ call.options = DefaultOptions
    /\ IsDict(call.expected) /\ IsDict(call.actual)
    /\ DOMAIN call.expected.v = {"a"} /\ DOMAIN call.actual.v = {"a"}
    /\ IsDict(call.expected.v["a"]) /\ IsList(call.actual.v["a"])
    /\ ret = [result |-> TRUE, errors |-> <<>>, exc |-> ""]

(***************************************************************************)
(* C19: leaf rule precedence. For a scalar pair whose path is governed by  *)
(* several rules, only the first applicable one in the order custom        *)
(* validator, wildcard, numeric, UUID, Base64, PAN, Aadhaar, regex,        *)
(* not-equal, equality is evaluated, and its outcome is the one error      *)
(* record of the leaf or none. A custom validator governs the exact path   *)
(* it is registered for; a rule of the other sets governs the paths that   *)
(* its key matches (the path, its leaf key or a suffix of it).             *)
(***************************************************************************)
Governs(rule, path, options) ==
    CASE rule = "custom" -> path \in DOMAIN options.custom_validators
      [] rule = "wildcard" -> is_in_options(path, options.wildcard_keys)
      [] rule = "numeric" -> is_in_options(path, DOMAIN options.numeric_validations)
      [] rule = "uuid" -> is_in_options(path, options.is_uuid_keys)
      [] rule = "base64" -> is_in_options(path, options.is_base64_keys)
      [] rule = "pan" -> is_in_options(path, options.is_pan_keys)
      [] rule = "aadhaar" -> is_in_options(path, options.is_aadhar_keys)
      [] rule = "regex" -> is_in_options(path, DOMAIN options.regex_keys)
      [] OTHER -> is_in_options(path, options.not_equal_keys)

\* the first rule of the order that governs the path, "equality" when none does
FirstApplicable(path, options) ==
    LET governing == {i \in 1..Len(RuleOrder) : Governs(RuleOrder[i], path, options)}
    IN IF governing = {} THEN "equality"
       ELSE RuleOrder[CHOOSE i \in governing : \A j \in governing : i <= j]

\* the message of the error the rule gives for the pair, "" when it passes
Verdict(rule, expected, actual, path, options) ==
    LET Message(passed, message) == IF passed THEN "" ELSE message
        OnlyRule(map) == map[CHOOSE key \in DOMAIN map : TRUE]
    IN CASE rule = "custom" ->
              Message(CallValidator(validators.map[options.custom_validators[path]],
                                    expected, actual) = "pass",
                      "Custom validation failed")
         [] rule = "wildcard" -> ""
         [] rule = "numeric" ->
              Message(_is_numeric_valid(actual, OnlyRule(options.numeric_validations)).result,
                      "Numeric validation failed")
         [] rule = "uuid" ->
              Message(IsStr(actual) /\ uuid_pattern(actual.v), "UUID format mismatch")
         [] rule = "base64" ->
              Message(IsStr(actual) /\ base64_pattern(actual.v), "Base64 format mismatch")
         [] rule = "pan" ->
              Message(IsStr(actual) /\ pan_pattern(actual.v), "PAN format mismatch")
         [] rule = "aadhaar" ->
              Message(IsStr(actual) /\ aadhar_pattern(actual.v), "Aadhaar format mismatch")
         [] rule = "regex" ->
              Message(IsStr(actual)
                      /\ RegexFullMatch(OnlyRule(options.regex_keys), actual.v),
                      "Regex mismatch")
         [] rule = "not_equal" ->
              Message(~PyEq(expected, actual), "Value should not be equal")
         [] OTHER -> Message(PyEq(expected, actual), "Value mismatch")

\* a returned call on {a: {score: e}} and {a: {score: x}}, two scalars
StackCall ==
    /\ Returned
    /\ call.path = <<>>
    /\ \E e \in ScoreExpected : call.expected = Score(e)
    /\ \E a \in ScoreActual \cup StackActual : call.actual = Score(a)

C19_FirstApplicableRuleOnly ==
    StackCall =>
        LET verdict == Verdict(FirstApplicable(ScorePath, call.options),
                               call.expected.v["a"].v["score"],
                               call.actual.v["a"].v["score"], ScorePath, call.options)
        IN /\ ret.exc = ""
           /\ ret.errors = Recorded(verdict = "", verdict)

(***************************************************************************)
(* C20: an expected leaf that is a {ACTUAL_VALUE:path} placeholder whose   *)
(* path has a missing key or a value that is not an object on the way      *)
(* gives exactly one 'Reference resolution failed' error at that leaf and  *)
(* no other rule (custom validator, wildcard, equality) is applied to it,  *)
(* and the sibling keys and list elements are compared all the same. The   *)
(* leaves looked at are the roots, the key a and the first list element;   *)
(* the siblings are the key b and the second list element.                 *)
(***************************************************************************)
Dangling(expected) ==
    /\ IsStr(expected)
    /\ IsReference(expected.v)
    /\ ~_resolve_reference(expected, call.actual).ok

Siblings ==
    (IF /\ IsDict(call.expected) /\ IsDict(call.actual)
        /\ "b" \in DOMAIN call.expected.v \cap DOMAIN call.actual.v
     THEN {[path |-> KeyPath(call.path, "b"), expected |-> call.expected.v["b"],
            actual |-> call.actual.v["b"]]}
     ELSE {})
    \cup (IF /\ IsList(call.expected) /\ IsList(call.actual)
             /\ Len(call.expected.v) >= 2 /\ Len(call.actual.v) >= 2
          THEN {[path |-> IndexPath(call.path, 1), expected |-> call.expected.v[2],
                 actual |-> call.actual.v[2]]}
          ELSE {})

ResolutionFailed(path) ==
    ErrorRecord(get_leaf_key(path), path, "Reference resolution failed")

C20_ResolutionFailureScoped ==
    Returned =>
        \A loc \in Locations :
            Dangling(loc.expected) =>
                /\ ret.exc = ""
                /\ Cardinality(ErrorsFor(loc.path)) = 1
                /\ \A i \in ErrorsFor(loc.path) : ret.errors[i] = ResolutionFailed(loc.path)
                /\ \A sib \in Siblings :
                      (~IsContainer(sib.expected) /\ ~IsContainer(sib.actual)) =>
                          ((\E i \in 1..Len(ret.errors) : ret.errors[i] = Mismatch(sib.path))
                           <=> ~PyEq(sib.expected, sib.actual))

(***************************************************************************)
(* C21: identity-key selection in unordered mode. For two lists whose      *)
(* elements are all objects the identity key is the first of name, id,     *)
(* qId, chanUid, hubId present in every element of both lists (an empty    *)
(* list has them all); the comparison is positional exactly when there is  *)
(* none, and with a key chosen every identity of the expected list only    *)
(* gives one 'Missing item' error and every identity of the actual list    *)
(* only one 'Extra item' error, at the path parent[key=value].             *)
(***************************************************************************)
Candidates == <<"name", "id", "qId", "chanUid", "hubId">>

InEvery(list, key) == \A i \in 1..Len(list) : key \in DOMAIN list[i].v

\* the identity key of the two lists, "" when no candidate qualifies
IdentityKey(expected_list, actual_list) ==
    LET fit == {i \in 1..Len(Candidates) :
                  InEvery(expected_list, Candidates[i]) /\ InEvery(actual_list, Candidates[i])}
    IN IF fit = {} THEN "" ELSE Candidates[CHOOSE i \in fit : \A j \in fit : i <= j]

Identities(list, key) == {list[i].v[key] : i \in 1..Len(list)}

OnlyIn(list, other, key) ==
    {x \in Identities(list, key) : \A y \in Identities(other, key) : ~PyEq(x, y)}

Reports(path, message) ==
    {i \in 1..Len(ret.errors) :
        ret.errors[i].jsonpath = path /\ ret.errors[i].message = message}

IsIndexPath(path) == Len(path) >= 3 /\ path[1] = "[" /\ path[3] = "]"

ObjectListsCall ==
    /\ Returned
    /\ IsList(call.expected) /\ IsList(call.actual)
    /\ \A i \in 1..Len(call.expected.v) : IsDict(call.expected.v[i])
    /\ \A i \in 1..Len(call.actual.v) : IsDict(call.actual.v[i])
    /\ call.options.list_validation_type = "unordered"

C21_IdentityKeySelection ==
    ObjectListsCall =>
        LET key == IdentityKey(call.expected.v, call.actual.v)
            Keyed(path) == Len(path) >= 3 /\ SubSeq(path, 1, 3) = <<"[", key, "=">>
        IN IF key = ""
           THEN /\ \A i \in 1..Len(ret.errors) :
                      ret.errors[i].jsonpath = call.path \/ IsIndexPath(ret.errors[i].jsonpath)
                /\ (Reports(call.path, "List length mismatch") # {})
                       <=> (Len(call.expected.v) # Len(call.actual.v))
           ELSE /\ \A i \in 1..Len(ret.errors) : Keyed(ret.errors[i].jsonpath)
                /\ \A x \in OnlyIn(call.expected.v, call.actual.v, key) :
                      Cardinality(Reports(ItemPath(call.path, key, x),
                                          "Missing item in actual list")) = 1
                /\ \A x \in OnlyIn(call.actual.v, call.expected.v, key) :
                      Cardinality(Reports(ItemPath(call.path, key, x),
                                          "Extra item in actual list")) = 1

(***************************************************************************)
(* C22: fallback equivalence. For two lists in which some element is not   *)
(* an object, or in which no candidate key is present in every element of  *)
(* both, unordered mode gives exactly the error list that symmetric mode   *)
(* gives: one 'List length mismatch' error if and only if the lengths      *)
(* differ, followed by the positional comparisons of the first             *)
(* min(lengths) pairs.                                                     *)
(***************************************************************************)
FallbackCall ==
    /\ Returned
    /\ IsList(call.expected) /\ IsList(call.actual)
    /\ call.options.list_validation_type = "unordered"
    /\ \/ \E i \in 1..Len(call.expected.v) : ~IsDict(call.expected.v[i])
       \/ \E i \in 1..Len(call.actual.v) : ~IsDict(call.actual.v[i])
       \/ IdentityKey(call.expected.v, call.actual.v) = ""

InSymmetricMode(c) == [c EXCEPT !.options.list_validation_type = "symmetric"]

C22_FallbackEqualsSymmetric ==
    FallbackCall => ret.errors = Outcome(InSymmetricMode(call), validators).errors

\* C22, amended: the error list is the length mismatch, if any, followed by
\* what the comparison of each pair gives, made in the mode of the call, so
\* that a pair of lists of objects is reconciled by identity; the call raises
\* when the comparison of a pair does. When no element holds a list at any
\* depth, the error list is the one of symmetric mode.
PairOutcome(i) ==
    LET st == json_difference(call.expected.v[i], call.actual.v[i],
                              IndexPath(call.path, i - 1), Entry(validators, <<>>),
                              call.options, call.actual)
    IN [errors |-> st.errors, exc |-> st.exc]

RECURSIVE PairErrors(_, _)
PairErrors(i, n) == IF i > n THEN <<>> ELSE PairOutcome(i).errors \o PairErrors(i + 1, n)

LengthMismatch(path) == ErrorRecord(get_leaf_key(path), path, "List length mismatch")

\* value is a list, or an object that holds one at some depth
RECURSIVE HoldsList(_)
HoldsList(value) ==
    \/ IsList(value)
    \/ IsDict(value) /\ \E key \in DOMAIN value.v : HoldsList(value.v[key])

Flat(list) == \A i \in 1..Len(list) : ~HoldsList(list[i])

C22_FallbackIsPositional ==
    FallbackCall =>
        LET n == Min(Len(call.expected.v), Len(call.actual.v))
            raising == {i \in 1..n : PairOutcome(i).exc # ""}
            first == CHOOSE i \in raising : \A j \in raising : i <= j
            lengths == IF Len(call.expected.v) # Len(call.actual.v)
                       THEN <<LengthMismatch(call.path)>> ELSE <<>>
        IN /\ IF raising = {}
              THEN ret.exc = "" /\ ret.errors = lengths \o PairErrors(1, n)
              ELSE ret.exc = PairOutcome(first).exc
           /\ Flat(call.expected.v) /\ Flat(call.actual.v)
                 => /\ ret.exc = ""
                    /\ ret.errors = Outcome(InSymmetricMode(call), validators).errors

C22_Witness ==
    /\ FallbackCall
    /\ call.expected = JList(<<Inner(1, 2), JInt(1)>>)
    /\ call.actual = JList(<<Inner(2, 1)>>)
    /\ ret.errors = <<LengthMismatch(<<>>)>>
    /\ Outcome(InSymmetricMode(call), validators).errors # ret.errors

(***************************************************************************)
(* C23: a dict key whose key path is matched by skip_keys, by its full     *)
(* path, by its leaf key or by a suffix, contributes no error, whether the *)
(* key is missing, extra or present on both sides with any values: no      *)
(* error record has a jsonpath equal to that key path or extending it.     *)
(***************************************************************************)
Count(s, t) == Cardinality({i \in 1..Len(s) : s[i] = t})

\* the key paths on the way to path, below the path of the call: the prefixes
\* of path that end with a dict key, outside of an index
KeyPathsTo(path) ==
    {SubSeq(path, 1, n) : n \in {m \in (Len(call.path) + 1)..Len(path) :
        /\ path[m] \notin {".", "[", "]"}
        /\ Count(SubSeq(path, 1, m), "[") = Count(SubSeq(path, 1, m), "]")
        /\ m = Len(path) \/ path[m + 1] \in {".", "["}}}

\* keys names key_path by its full path, by its leaf key or by a suffix
Matched(key_path, keys) ==
    \E opt \in keys :
        \/ opt = key_path
        \/ opt = <<key_path[Len(key_path)]>>
        \/ EndsWith(key_path, <<".">> \o opt)

ErrorsUnder(key_path) ==
    {i \in 1..Len(ret.errors) :
        /\ ret.errors[i].jsonpath # NoneStr
        /\ key_path \in KeyPathsTo(ret.errors[i].jsonpath)}

ErrorKeyPaths ==
    UNION {KeyPathsTo(ret.errors[i].jsonpath) :
              i \in {j \in 1..Len(ret.errors) : ret.errors[j].jsonpath # NoneStr}}

C23_SkippedKeyReportsNothing ==
    Returned => \A key_path \in ErrorKeyPaths : ~Matched(key_path, call.options.skip_keys)

WithoutSkip(c) == [c EXCEPT !.options.skip_keys = {}]

C23_Witness ==
    /\ Returned
    /\ call.options.skip_keys = {<<"a", ".", "b">>}
    /\ call.expected = Under("meta", Under("a", Under("b", JInt(1))))
    /\ call.actual = Under("meta", Under("a", Under("b", JInt(2))))
    /\ ret.exc = "" /\ ret.errors = <<>>
    /\ Outcome(WithoutSkip(call), validators).errors
          = <<Mismatch(<<"meta", ".", "a", ".", "b">>)>>

(***************************************************************************)
(* C24: a dict key matched by presence_keys and present in both expected   *)
(* and actual is satisfied without a value check: no error is recorded at  *)
(* or below its key path whatever the two values, and no custom validator  *)
(* registered for that path is called. A call of a validator that always   *)
(* fails would leave its error at the path.                                *)
(***************************************************************************)
\* the paths of the keys that value holds, below dicts only
RECURSIVE DictKeyPaths(_, _)
DictKeyPaths(value, path) ==
    IF ~IsDict(value) THEN {}
    ELSE UNION {{KeyPath(path, key)} \cup DictKeyPaths(value.v[key], KeyPath(path, key)) :
                   key \in DOMAIN value.v}

PresentOnBoth ==
    DictKeyPaths(call.expected, call.path) \cap DictKeyPaths(call.actual, call.path)

C24_PresenceSkipsValueCheck ==
    Returned =>
        \A key_path \in PresentOnBoth :
            Matched(key_path, call.options.presence_keys) => ErrorsUnder(key_path) = {}

WithoutPresence(c) == [c EXCEPT !.options.presence_keys = {}]

C24_Witness ==
    /\ Returned
    /\ call.options.presence_keys = {<<"a">>}
    /\ call.options.custom_validators = ScopeValidators
    /\ call.expected = Under("meta", Under("a", Under("b", JInt(1))))
    /\ call.actual = Under("meta", Under("a", JList(<<JInt(2)>>)))
    /\ ret.exc = "" /\ ret.errors = <<>>
    /\ Outcome(WithoutPresence(call), validators).errors
          = <<ErrorRecord(<<"a">>, <<"meta", ".", "a">>, "Custom validation failed")>>

(***************************************************************************)
(* C25: a custom validator that raises, or that returns something other    *)
(* than a (passed, message) pair, never propagates an exception: whether   *)
(* the dict walker calls it on the raw values or the leaf evaluator on the *)
(* resolved expected value, exactly one error is recorded at that path and *)
(* the walk continues with the next key or element.                        *)
(***************************************************************************)
\* the places where a registered validator is called, each with the place the
\* walk visits next, which holds 1 against 2
ValidatorSites ==
    (IF /\ IsDict(call.expected) /\ IsDict(call.actual)
        /\ DOMAIN call.expected.v = {"a", "b"} /\ DOMAIN call.actual.v = {"a", "b"}
        /\ call.expected.v["b"] = JInt(1) /\ call.actual.v["b"] = JInt(2)
        /\ <<"a">> \in DOMAIN call.options.custom_validators
     THEN {[path |-> <<"a">>, next |-> <<"b">>]} ELSE {})
    \cup
    (IF /\ IsList(call.expected) /\ IsList(call.actual)
        /\ Len(call.expected.v) = 2 /\ Len(call.actual.v) = 2
        /\ ~IsContainer(call.expected.v[1]) /\ ~IsContainer(call.actual.v[1])
        /\ call.expected.v[2] = JInt(1) /\ call.actual.v[2] = JInt(2)
        /\ <<"[", "0", "]">> \in DOMAIN call.options.custom_validators
     THEN {[path |-> <<"[", "0", "]">>, next |-> <<"[", "1", "]">>]} ELSE {})

\* the validator registered for path raises, or returns what is no pair
Misbehaves(path) ==
    LET method_name == call.options.custom_validators[path]
    IN /\ validators.has /\ method_name \in DOMAIN validators.map
       /\ validators.map[method_name] \in {"raise", "none", "two"}

C25_ValidatorFailureIsRecorded ==
    Returned =>
        \A site \in ValidatorSites :
            Misbehaves(site.path) =>
                /\ ret.exc = ""
                /\ Cardinality(ErrorsFor(site.path)) = 1
                /\ Cardinality({i \in 1..Len(ret.errors) :
                                   ret.errors[i].jsonpath = site.path}) = 1
                /\ Reports(site.next, "Value mismatch") # {}

(***************************************************************************)
(* C26: in json_validate the leaf rules are applied in the same relative   *)
(* precedence as in the leaf evaluator of json_difference (custom          *)
(* validator, wildcard, numeric, UUID, Base64, PAN, Aadhaar, regex),       *)
(* stopping at the first applicable rule: a path governed by both a        *)
(* numeric rule and a format or regex rule is decided by the numeric rule, *)
(* and a path in is_base64_keys is format-checked.                         *)
(***************************************************************************)
\* a returned call of json_validate on the data {a: {score: x}}, x a scalar,
\* with no type and no enum rule
ContractStackCall ==
    /\ pc = "validated"
    /\ call.expected = Score(JInt(1))
    /\ \E d \in StackActual : call.actual = Score(d)
    /\ DOMAIN call.options.type_validations = {}
    /\ DOMAIN call.options.enum_validations = {}

\* the first rule of the order of json_difference that governs the path
FirstContractRule(path, options) ==
    LET governing == {i \in 1..Len(RuleOrder) :
                        RuleOrder[i] # "not_equal" /\ Governs(RuleOrder[i], path, options)}
    IN IF governing = {} THEN ""
       ELSE RuleOrder[CHOOSE i \in governing : \A j \in governing : i <= j]

ContractVerdict(rule, contract_value, data_value, path, options) ==
    CASE rule = "" -> ""
      [] rule = "custom" ->
           IF CallValidator(contract_validators.map[options.custom_validators[path]],
                            contract_value, data_value) = "pass"
           THEN "" ELSE "Custom validation failed"
      [] OTHER -> Verdict(rule, contract_value, data_value, path, options)

C26_ContractPrecedence ==
    ContractStackCall =>
        LET path == <<"a", ".", "score">>
            rule == FirstContractRule(path, call.options)
            message == ContractVerdict(rule, JInt(1), call.actual.v["a"].v["score"], path,
                                       call.options)
        IN /\ ret.exc = ""
           /\ ret.errors = IF message = "" THEN <<>>
                           ELSE <<ErrorRecord(<<"score">>, path, message)>>

(***************************************************************************)
(* C28: duplicate identities. In identity-keyed list comparison, when      *)
(* several elements of one list carry the same identity value only the     *)
(* last of them takes part in the comparison and the earlier ones are      *)
(* dropped without any error; no 'List length mismatch' error is recorded  *)
(* in this mode, so two lists of objects of different lengths can compare  *)
(* with zero errors.                                                       *)
(* The call returns what it returns for the two lists with every earlier   *)
(* element of an identity removed. Of identities that are equal but not    *)
(* written alike (1 and 1.0) the first is the one the path of the item is  *)
(* written with: the last element is kept under the identity of the first. *)
(* The lists without the earlier elements are compared by the same key     *)
(* unless an element that was removed was the only one without a candidate *)
(* key of higher priority.                                                 *)
(***************************************************************************)
KeyedLists ==
    /\ Returned /\ ret.exc = ""
    /\ IsList(call.expected) /\ IsList(call.actual)
    /\ call.options.list_validation_type = "unordered"
    /\ \A i \in 1..Len(call.expected.v) : IsDict(call.expected.v[i])
    /\ \A i \in 1..Len(call.actual.v) : IsDict(call.actual.v[i])
    /\ IdentityKey(call.expected.v, call.actual.v) # ""

SameIdentity(list, key, i, j) == PyEq(list[i].v[key], list[j].v[key])

IsLastOfIdentity(list, key, i) ==
    \A j \in (i + 1)..Len(list) : ~SameIdentity(list, key, i, j)

FirstOfIdentity(list, key, i) ==
    CHOOSE j \in 1..i :
        SameIdentity(list, key, i, j) /\ \A m \in 1..(j - 1) : ~SameIdentity(list, key, i, m)

RECURSIVE LastOfEach(_, _, _)
LastOfEach(list, key, i) ==
    IF i > Len(list) THEN <<>>
    ELSE (IF IsLastOfIdentity(list, key, i)
          THEN <<[list[i] EXCEPT !.v[key] = list[FirstOfIdentity(list, key, i)].v[key]]>>
          ELSE <<>>) \o LastOfEach(list, key, i + 1)

HasDuplicates(list, key) == \E i \in 1..Len(list) : ~IsLastOfIdentity(list, key, i)

C28_LastDuplicateWins ==
    KeyedLists =>
        LET key == IdentityKey(call.expected.v, call.actual.v)
            last == [call EXCEPT !.expected = JList(LastOfEach(call.expected.v, key, 1)),
                                 !.actual = JList(LastOfEach(call.actual.v, key, 1))]
        IN /\ IdentityKey(last.expected.v, last.actual.v) = key
                => ret = Outcome(last, validators)
           /\ Reports(call.path, "List length mismatch") = {}

C28_Witness ==
    /\ KeyedLists
    /\ HasDuplicates(call.actual.v, IdentityKey(call.expected.v, call.actual.v))
    /\ call.actual.v[1].v["v"] # call.actual.v[Len(call.actual.v)].v["v"]
    /\ Len(call.expected.v) # Len(call.actual.v)
    /\ call.expected.v # <<>>
    /\ ret.errors = <<>>

(***************************************************************************)
(* C29: when validate_only_keys is not empty, a dict key is compared only  *)
(* if it and every enclosing dict key on the way from the root are each    *)
(* matched by validate_only_keys: a nested key that is matched (by full    *)
(* path, leaf key or suffix) under an unmatched ancestor key is never      *)
(* visited, and a mismatch at it produces no error. Every error of the     *)
(* call lies on a way of matched keys only, and the errors are those of    *)
(* the call without validate_only_keys that lie on such a way.             *)
(***************************************************************************)
OnMatchedWay(error, keys) ==
    \/ error.jsonpath = NoneStr
    \/ \A key_path \in KeyPathsTo(error.jsonpath) : Matched(key_path, keys)

RECURSIVE OnlyOnMatchedWay(_, _)
OnlyOnMatchedWay(errors, keys) ==
    IF errors = <<>> THEN <<>>
    ELSE (IF OnMatchedWay(Head(errors), keys) THEN <<Head(errors)>> ELSE <<>>)
         \o OnlyOnMatchedWay(Tail(errors), keys)

WithoutValidateOnly(c) == [c EXCEPT !.options.validate_only_keys = {}]

C29_ValidateOnlyNeedsEveryAncestor ==
    (Returned /\ call.options.validate_only_keys # {}) =>
        LET keys == call.options.validate_only_keys
            all == Outcome(WithoutValidateOnly(call), validators)
        IN /\ \A i \in 1..Len(ret.errors) : OnMatchedWay(ret.errors[i], keys)
           /\ (ret.exc = "" /\ all.exc = "")
                => ret.errors = OnlyOnMatchedWay(all.errors, keys)

C29_Witness ==
    /\ Returned
    /\ call.options.validate_only_keys = {<<"a", ".", "b">>}
    /\ call.expected = Under("meta", Under("a", Under("b", JInt(1))))
    /\ call.actual = Under("meta", Under("a", Under("b", JInt(2))))
    /\ ret.exc = "" /\ ret.errors = <<>>
    /\ Outcome(WithoutValidateOnly(call), validators).errors
          = <<Mismatch(<<"meta", ".", "a", ".", "b">>)>>
    /\ Outcome([call EXCEPT !.options.validate_only_keys =
                                {<<"meta">>, <<"a">>, <<"b">>}], validators).errors
          = <<Mismatch(<<"meta", ".", "a", ".", "b">>)>>

(***************************************************************************)
(* C30: wildcard_keys, like not_equal_keys and the numeric, format and     *)
(* regex rules, take effect only where both values are scalars: when a key *)
(* matched by such a rule holds an object or an array on both sides, the   *)
(* subtree is still walked and every mismatch at a descendant whose own    *)
(* path is not matched by a rule is reported. Below such a key the call    *)
(* records, at the paths the rule does not match, the errors it records    *)
(* without the rule.                                                       *)
(***************************************************************************)
\* the dict keys present on both sides, with the two values they hold
RECURSIVE KeyPairs(_, _, _)
KeyPairs(expected, actual, path) ==
    IF ~(IsDict(expected) /\ IsDict(actual)) THEN {}
    ELSE UNION {{[path |-> KeyPath(path, key), expected |-> expected.v[key],
                  actual |-> actual.v[key]]}
                \cup KeyPairs(expected.v[key], actual.v[key], KeyPath(path, key)) :
                   key \in DOMAIN expected.v \cap DOMAIN actual.v}

LeafRules(options) ==
    options.wildcard_keys \cup options.not_equal_keys \cup options.is_uuid_keys
        \cup options.is_base64_keys \cup options.is_pan_keys \cup options.is_aadhar_keys
        \cup DOMAIN options.numeric_validations \cup DOMAIN options.regex_keys

RulesAt(key_path, options) == {opt \in LeafRules(options) : Matched(key_path, {opt})}

WithoutRulesAt(c, key_path) ==
    LET Rest(list) == list \ RulesAt(key_path, c.options)
        RestOf(map) == [opt \in Rest(DOMAIN map) |-> map[opt]]
    IN [c EXCEPT !.options.wildcard_keys = Rest(@),
                 !.options.not_equal_keys = Rest(@),
                 !.options.is_uuid_keys = Rest(@),
                 !.options.is_base64_keys = Rest(@),
                 !.options.is_pan_keys = Rest(@),
                 !.options.is_aadhar_keys = Rest(@),
                 !.options.numeric_validations = RestOf(@),
                 !.options.regex_keys = RestOf(@)]

\* the errors below key_path at paths that rules does not match
RECURSIVE UnmatchedBelow(_, _, _)
UnmatchedBelow(errors, key_path, rules) ==
    IF errors = <<>> THEN <<>>
    ELSE LET error == Head(errors)
             below == /\ error.jsonpath # NoneStr
                      /\ error.jsonpath # key_path
                      /\ key_path \in KeyPathsTo(error.jsonpath)
                      /\ ~Matched(error.jsonpath, rules)
         IN (IF below THEN <<error>> ELSE <<>>)
            \o UnmatchedBelow(Tail(errors), key_path, rules)

C30_RulesActAtScalarsOnly ==
    Returned =>
        \A pair \in KeyPairs(call.expected, call.actual, call.path) :
            LET rules == RulesAt(pair.path, call.options)
                without == Outcome(WithoutRulesAt(call, pair.path), validators)
            IN (/\ rules # {}
                /\ IsContainer(pair.expected) /\ IsContainer(pair.actual)
                /\ ret.exc = "" /\ without.exc = "")
                  => UnmatchedBelow(ret.errors, pair.path, rules)
                        = UnmatchedBelow(without.errors, pair.path, rules)

C30_Witness ==
    /\ Returned
    /\ call.options.wildcard_keys = {<<"a">>}
    /\ call.expected = Under("meta", Under("a", Under("b", JInt(1))))
    /\ call.actual = Under("meta", Under("a", Under("b", JInt(2))))
    /\ ret.exc = ""
    /\ ret.errors = <<Mismatch(<<"meta", ".", "a", ".", "b">>)>>

(***************************************************************************)
(* C27: termination. For every pair of finite JSON trees and every options *)
(* bundle whose custom validators terminate, json_difference eventually    *)
(* returns; each recursive call is on strictly smaller subtrees, each key  *)
(* of a dict union and each list position or identity value is visited at  *)
(* most once, and a resolved reference value is never itself walked.       *)
(***************************************************************************)
C27_EventuallyReturns == <>(pc = "done" /\ ret.exc = "")

\* the call ends: it returns or it raises
C27_Ends == <>(pc = "done")

\* the nodes and the edges of a tree
RECURSIVE Size(_)
RECURSIVE SizeBelow(_, _)
Size(value) == IF IsContainer(value) THEN 1 + SizeBelow(value, DOMAIN value.v) ELSE 1

SizeBelow(value, keys) ==
    IF keys = {} THEN 0
    ELSE LET key == CHOOSE any \in keys : TRUE
         IN 1 + Size(value.v[key]) + SizeBelow(value, keys \ {key})

\* what a task has left to walk: an activation weighs its two trees, an
\* iteration the two subtrees it may hand to an activation, and one more
Weight(task) ==
    LET Side(tree) ==
            CASE task.kind = "key" ->
                   IF task.key.v[1] \in DOMAIN tree.v THEN Size(tree.v[task.key.v[1]]) ELSE 0
              [] OTHER -> IF tree = None THEN 0 ELSE Size(tree)
    IN IF task.kind = "value" THEN 2 * (Size(task.expected) + Size(task.actual))
       ELSE 2 * (Side(task.expected) + Side(task.actual)) + 1

RECURSIVE TotalWeight(_)
TotalWeight(tasks) ==
    IF tasks = <<>> THEN 0 ELSE Weight(Head(tasks)) + TotalWeight(Tail(tasks))

\* every step leaves strictly less to walk
C27_StrictlySmaller ==
    [][(pc = "walking" /\ pending # <<>>) => TotalWeight(pending') < TotalWeight(pending)]_vars

\* no key, list position or identity value is visited twice
C27_VisitedOnce ==
    \A i \in 1..Len(visited) : \A j \in 1..Len(visited) : visited[i] = visited[j] => i = j

\* the value a reference resolves to is compared, never walked: the leaf
\* branch hands no work on
C27_LeafHandsNothingOn ==
    [][(pc = "walking" /\ pending # <<>> /\ Head(pending).kind = "value"
          /\ ~IsContainer(Head(pending).expected) /\ ~IsContainer(Head(pending).actual))
       => (pending' = Tail(pending) \/ pending' = <<>>)]_vars

\* the call followed step by step ends as the call made at once does, unless
\* the interpreter's stack runs out
C27_SameOutcome ==
    (pc = "done" /\ ret.exc # "RecursionError") => ret = Outcome(call, UnsetRegistry)

====
